---- MODULE Spec2Model ----
(***************************************************************************)
(* Model of src/src/python/video_to_srt.py: the FunASR segment merger      *)
(* (_process_funasr_segments) and the transcription pipeline of main().    *)
(***************************************************************************)
EXTENDS Integers, Sequences, FiniteSets, TLC

(***************************************************************************)
(* Bounds of the merger's inputs.                                          *)
(***************************************************************************)
MaxLen == 3

\* Python's None
NULL == "None"

\* A result item of the FunASR output list that is not a dict.
NOT_A_DICT == [is_dict |-> FALSE]

Speakers == {NULL, "A", "B"}

\* Millisecond values drawn for "start" and "end" (end < start included: the
\* code converts with int() and checks nothing).
Times == {0, 1}

\* Values drawn for max_merge_gap_ms and max_merged_segment_duration_ms.
GapChoices == {0, 1}

DurationChoices == {0, 1}

\* The text FunASR reports for the n-th sentence, before str(...).strip().
SentenceText(n) ==
    CASE n = 1 -> " a"
      [] n = 2 -> "b "
      [] n = 3 -> ""
      [] OTHER -> "c d"

Whitespace == {" ", "\t", "\n"}

RECURSIVE LStrip(_)
LStrip(s) ==
    IF Len(s) > 0 /\ SubSeq(s, 1, 1) \in Whitespace
    THEN LStrip(SubSeq(s, 2, Len(s)))
    ELSE s

RECURSIVE RStrip(_)
RStrip(s) ==
    IF Len(s) > 0 /\ SubSeq(s, Len(s), Len(s)) \in Whitespace
    THEN RStrip(SubSeq(s, 1, Len(s) - 1))
    ELSE s

\* str.strip()
Strip(s) == RStrip(LStrip(s))

\* "key" in sentence_data
HasKey(d, k) == k \in DOMAIN d

\* sentence_data.get("spk")
GetSpk(d) == IF HasKey(d, "spk") THEN d.spk ELSE NULL

\* The condition of lines 111-114 and the dict appended at lines 115-120.
IsSentence(d) == HasKey(d, "start") /\ HasKey(d, "end") /\ HasKey(d, "text")

RawOf(d) ==
    [text |-> Strip(d.text), start |-> d.start, end |-> d.end, spk |-> GetSpk(d)]

RECURSIVE SentencesOf(_)
SentencesOf(info) ==
    IF info = <<>> THEN <<>>
    ELSE (IF IsSentence(Head(info)) THEN <<RawOf(Head(info))>> ELSE <<>>)
         \o SentencesOf(Tail(info))

\* isinstance(result_item, dict) and a non-empty list under "sentence_info"
ItemSentences(item) ==
    IF ~item.is_dict THEN <<>>
    ELSE IF ~HasKey(item, "sentence_info") THEN <<>>
    ELSE SentencesOf(item.sentence_info)

RECURSIVE RawSegmentExtraction(_)
RawSegmentExtraction(list) ==
    IF list = <<>> THEN <<>>
    ELSE ItemSentences(Head(list)) \o RawSegmentExtraction(Tail(list))

EmptyResultPackage ==
    [transcription_result |-> [segments |-> <<>>, language |-> "zh"],
     speaker_mapping |-> <<>>]

\* Lines 140-141.
Gap(cur, next) == next.start - cur.end

PotentialDuration(cur, next) == next.end - cur.start

\* Lines 149-154 with the speakers never compared.
CanMergeSpeakers_Always(diar, cur, next) == TRUE

\* Lines 149-154.
CanMergeSpeakers(diar, cur, next) ==
    \/ ~diar
    \/ cur.spk = NULL
    \/ next.spk = NULL
    \/ cur.spk = next.spk

\* Lines 156-159 without the limit on the gap.
ShouldMerge_NoGapLimit(diar, maxGap, maxDur, cur, next) ==
    /\ CanMergeSpeakers(diar, cur, next)
    /\ Gap(cur, next) >= 0
    /\ PotentialDuration(cur, next) <= maxDur

\* Lines 156-159 without the test that next starts after the accumulator ends.
ShouldMerge_NoOrderCheck(diar, maxGap, maxDur, cur, next) ==
    /\ CanMergeSpeakers(diar, cur, next)
    /\ Gap(cur, next) <= maxGap
    /\ PotentialDuration(cur, next) <= maxDur

\* The condition of lines 156-159.
ShouldMerge(diar, maxGap, maxDur, cur, next) ==
    /\ CanMergeSpeakers(diar, cur, next)
    /\ Gap(cur, next) >= 0
    /\ Gap(cur, next) <= maxGap
    /\ PotentialDuration(cur, next) <= maxDur

\* Lines 161-162 with the texts concatenated without a separator.
MergeInto_NoSeparator(cur, next) ==
    [cur EXCEPT !.text = cur.text \o next.text, !.end = next.end]

\* Lines 161-162 with the speaker taken from the segment merged last.
MergeInto_TakesNextSpeaker(cur, next) ==
    [cur EXCEPT !.text = cur.text \o " " \o next.text, !.end = next.end,
                !.spk = next.spk]

\* Lines 161-162 with the speaker of a merged segment reset to None.
MergeInto_DropsSpeaker(cur, next) ==
    [cur EXCEPT !.text = cur.text \o " " \o next.text, !.end = next.end, !.spk = NULL]

\* Lines 161-162: the text grows by " " + next.text, the end moves.
MergeInto(cur, next) ==
    [cur EXCEPT !.text = cur.text \o " " \o next.text, !.end = next.end]

\* Lines 136-168 as a function of the list scanned: the loop from index k
\* with the accumulator cur, then the append of the open accumulator.
RECURSIVE ScanFrom(_, _, _, _, _, _)
ScanFrom(diar, maxGap, maxDur, segs, k, cur) ==
    IF k > Len(segs) THEN <<cur>>
    ELSE IF ShouldMerge(diar, maxGap, maxDur, cur, segs[k])
         THEN ScanFrom(diar, maxGap, maxDur, segs, k + 1, MergeInto(cur, segs[k]))
         ELSE <<cur>> \o ScanFrom(diar, maxGap, maxDur, segs, k + 1, segs[k])

\* Lines 130-168: the merged segments of a list of segments.
MergedSegments(diar, maxGap, maxDur, segs) ==
    IF segs = <<>> THEN <<>> ELSE ScanFrom(diar, maxGap, maxDur, segs, 2, segs[1])

\* round(ms / 1000.0, 3): the decimal number ms/1000, kept as whole seconds
\* and thousandths.
ToSeconds(ms) == [whole |-> ms \div 1000, thousandths |-> ms % 1000]

\* The dict appended at lines 175-179.
SchemaSegment(seg) ==
    [text |-> seg.text, start |-> ToSeconds(seg.start), end |-> ToSeconds(seg.end)]

\* Lines 174-188.
OutputPackage(processed) ==
    [transcription_result |->
        [segments |-> [k \in 1..Len(processed) |-> SchemaSegment(processed[k])],
         language |-> "zh"],
     speaker_mapping |-> [k \in 1..Len(processed) |-> processed[k].spk]]

VARIABLES
    funasr_output_list,              \* argument
    diarization_enabled,             \* argument
    enable_segment_merging,          \* argument
    max_merge_gap_ms,                \* argument
    max_merged_segment_duration_ms,  \* argument
    raw_segments_ms_spk,
    processed_segments_ms_spk,
    current_merged_segment,
    i,                               \* index of next_segment (1-based)
    mpc,                             \* position in _process_funasr_segments
    package                          \* the returned dict

mvars == <<funasr_output_list, diarization_enabled, enable_segment_merging,
           max_merge_gap_ms, max_merged_segment_duration_ms,
           raw_segments_ms_spk, processed_segments_ms_spk,
           current_merged_segment, i, mpc, package>>

margs == <<funasr_output_list, diarization_enabled, enable_segment_merging,
           max_merge_gap_ms, max_merged_segment_duration_ms>>

VARIABLES
    pc,          \* main(): the external call in progress, or the program point
    args,        \* the parsed command line
    frame,       \* main()'s local variables
    heap,        \* the model objects held in memory
    calls,       \* the calls made to the external collaborators, with outcomes
    stdout,      \* what was written to sys.stdout, in order
    stderr,      \* what was written to sys.stderr, in order
    out_file,    \* the content of args.output_srt_path
    temp_file,   \* whether the temporary audio file exists
    exit_code    \* the process exit status

pvars == <<pc, args, frame, heap, calls, stdout, stderr, out_file, temp_file, exit_code>>

VARIABLES
    fpc,           \* milliseconds_to_srt_time_format: not called, called, returned
    milliseconds,  \* its argument
    formatted      \* what the call returned or raised

fvars == <<fpc, milliseconds, formatted>>

vars == <<mvars, pvars, fvars>>

(***************************************************************************)
(* _process_funasr_segments, one action per phase.                         *)
(***************************************************************************)

\* Lines 99-135 without the test of enable_segment_merging at line 129.
ExtractRaw_IgnoresMergeFlag ==
    /\ mpc = "extract"
    /\ LET raw == RawSegmentExtraction(funasr_output_list) IN
        /\ raw_segments_ms_spk' = raw
        /\ IF raw = <<>>
           THEN /\ package' = EmptyResultPackage
                /\ mpc' = "returned"
                /\ UNCHANGED <<processed_segments_ms_spk, current_merged_segment, i>>
           ELSE /\ current_merged_segment' = raw[1]
                /\ i' = 2
                /\ mpc' = "scan"
                /\ UNCHANGED <<processed_segments_ms_spk, package>>
    /\ UNCHANGED margs

\* Lines 99-135: extraction, the early returns, the seeding of the scan.
ExtractRaw ==
    /\ mpc = "extract"
    /\ LET raw == RawSegmentExtraction(funasr_output_list) IN
        /\ raw_segments_ms_spk' = raw
        /\ IF raw = <<>>
           THEN /\ package' = EmptyResultPackage
                /\ mpc' = "returned"
                /\ UNCHANGED <<processed_segments_ms_spk, current_merged_segment, i>>
           ELSE IF ~enable_segment_merging
           THEN /\ processed_segments_ms_spk' = raw
                /\ mpc' = "transform"
                /\ UNCHANGED <<current_merged_segment, i, package>>
           ELSE /\ current_merged_segment' = raw[1]
                /\ i' = 2
                /\ mpc' = "scan"
                /\ UNCHANGED <<processed_segments_ms_spk, package>>
    /\ UNCHANGED margs

\* Lines 137-166: one iteration of the loop.
ScanStep ==
    /\ mpc = "scan"
    /\ i <= Len(raw_segments_ms_spk)
    /\ LET next_segment == raw_segments_ms_spk[i] IN
        IF ShouldMerge(diarization_enabled, max_merge_gap_ms,
                       max_merged_segment_duration_ms,
                       current_merged_segment, next_segment)
        THEN /\ current_merged_segment' = MergeInto(current_merged_segment, next_segment)
             /\ UNCHANGED processed_segments_ms_spk
        ELSE /\ processed_segments_ms_spk' =
                    Append(processed_segments_ms_spk, current_merged_segment)
             /\ current_merged_segment' = next_segment
    /\ i' = i + 1
    /\ UNCHANGED <<margs, raw_segments_ms_spk, mpc, package>>

\* The end of the loop without the append of line 168.
ScanEnd_DropsAccumulator ==
    /\ mpc = "scan"
    /\ i > Len(raw_segments_ms_spk)
    /\ mpc' = "transform"
    /\ UNCHANGED <<margs, raw_segments_ms_spk, processed_segments_ms_spk,
                   current_merged_segment, i, package>>

\* Line 168: the open accumulator is appended after the loop.
ScanEnd ==
    /\ mpc = "scan"
    /\ i > Len(raw_segments_ms_spk)
    /\ processed_segments_ms_spk' =
            Append(processed_segments_ms_spk, current_merged_segment)
    /\ mpc' = "transform"
    /\ UNCHANGED <<margs, raw_segments_ms_spk, current_merged_segment, i, package>>

\* Lines 170-188.
OutputTransformation ==
    /\ mpc = "transform"
    /\ package' = OutputPackage(processed_segments_ms_spk)
    /\ mpc' = "returned"
    /\ UNCHANGED <<margs, raw_segments_ms_spk, processed_segments_ms_spk,
                   current_merged_segment, i>>

MergerStep ==
    /\ ExtractRaw \/ ScanStep \/ ScanEnd \/ OutputTransformation
    /\ UNCHANGED <<pvars, fvars>>

(***************************************************************************)
(* milliseconds_to_srt_time_format, lines 31-39.  A Python value is a      *)
(* record: an int, a finite float (sign, whole part, tenths), the floats   *)
(* nan and inf, None, or a str.                                            *)
(***************************************************************************)

PyInt(n) == [kind |-> "int", value |-> n]

PyFloat(sign, whole, tenths) ==
    [kind |-> "float", sign |-> sign, whole |-> whole, tenths |-> tenths]

PyNan == [kind |-> "nan"]

PyInf(sign) == [kind |-> "inf", sign |-> sign]

\* isinstance(milliseconds, (int, float)), line 32.
IsIntOrFloat(v) == v.kind \in {"int", "float", "nan", "inf"}

\* milliseconds < 0, line 32: false for nan and for -0.0.
LessThanZero(v) ==
    IF v.kind = "int" THEN v.value < 0
    ELSE IF v.kind = "float" THEN v.sign = -1 /\ (v.whole > 0 \/ v.tenths > 0)
    ELSE IF v.kind = "inf" THEN v.sign = -1
    ELSE FALSE

Returns(text) == [raised |-> FALSE, value |-> text]

Raises(exception) == [raised |-> TRUE, value |-> exception]

\* int(milliseconds), line 34: a float is truncated toward zero, nan and
\* inf cannot be converted.
ToInt(v) ==
    IF v.kind = "int" THEN Returns(v.value)
    ELSE IF v.kind = "float" THEN Returns(v.sign * v.whole)
    ELSE IF v.kind = "nan" THEN Raises("ValueError")
    ELSE Raises("OverflowError")

Divmod(a, b) == [quotient |-> a \div b, remainder |-> a % b]

DecimalDigits == "0123456789"

\* str() of a natural number.
RECURSIVE Decimal(_)
Decimal(n) ==
    IF n < 10 THEN SubSeq(DecimalDigits, n + 1, n + 1)
    ELSE Decimal(n \div 10) \o SubSeq(DecimalDigits, (n % 10) + 1, (n % 10) + 1)

\* The format specifications :02d and :03d of line 37, for a natural
\* number: zeros on the left up to the width, never a digit cut off.
RECURSIVE ZeroPad(_, _)
ZeroPad(text, width) ==
    IF Len(text) >= width THEN text ELSE ZeroPad("0" \o text, width)

FormatD(n, width) == ZeroPad(Decimal(n), width)

\* Lines 31-39.
milliseconds_to_srt_time_format(v) ==
    IF ~IsIntOrFloat(v) \/ LessThanZero(v) THEN Returns("00:00:00,000")
    ELSE IF ToInt(v).raised THEN ToInt(v)
    ELSE LET s_ms == Divmod(ToInt(v).value, 1000)
             m_s == Divmod(s_ms.quotient, 60)
             h_m == Divmod(m_s.quotient, 60)
             hours == h_m.quotient
             minutes == h_m.remainder
             seconds == m_s.remainder
             ms == s_ms.remainder
         IN Returns(FormatD(hours, 2) \o ":" \o FormatD(minutes, 2) \o ":"
                    \o FormatD(seconds, 2) \o "," \o FormatD(ms, 3))

\* A call of the function: it returns or raises.
Format ==
    /\ fpc = "called"
    /\ formatted' = milliseconds_to_srt_time_format(milliseconds)
    /\ fpc' = "returned"
    /\ UNCHANGED <<milliseconds, mvars, pvars>>

FormatterIdle ==
    /\ fpc = "idle"
    /\ milliseconds = [kind |-> "none"]
    /\ formatted = Returns("")

(***************************************************************************)
(* main(): strings, errors, model objects.                                 *)
(***************************************************************************)

UpperLetters == "ABCDEFGHIJKLMNOPQRSTUVWXYZ"

LowerLetters == "abcdefghijklmnopqrstuvwxyz"

\* The lower-case letter of every upper-case letter.
UpperToLower ==
    LET position(c) == CHOOSE n \in 1..26 : SubSeq(UpperLetters, n, n) = c
    IN  [c \in {SubSeq(UpperLetters, k, k) : k \in 1..26} |->
            SubSeq(LowerLetters, position(c), position(c))]

LowerChar(c) == IF c \in DOMAIN UpperToLower THEN UpperToLower[c] ELSE c

\* str.lower()
\* The string is lowered half by half, each half bound once.
RECURSIVE Lower(_)
Lower(s) ==
    CHOOSE lowered \in
        { IF Len(t) = 0 THEN ""
          ELSE IF Len(t) = 1 THEN LowerChar(t)
          ELSE Lower(SubSeq(t, 1, Len(t) \div 2))
                \o Lower(SubSeq(t, (Len(t) \div 2) + 1, Len(t))) : t \in {s} } : TRUE

\* p in s
Contains(s, p) ==
    \E t \in {s} : \E k \in 1..(Len(t) - Len(p) + 1) : SubSeq(t, k, k + Len(p) - 1) = p

\* s.startswith(p)
StartsWith(s, p) == Len(s) >= Len(p) /\ SubSeq(s, 1, Len(p)) = p

\* An unbound or None object variable.
None == [is_none |-> TRUE]

NoError == [type |-> "none", msg |-> ""]

\* get_ffmpeg_path, lines 63-65.
FfmpegNotInPath ==
    [type |-> "FileNotFoundError",
     msg |-> "ffmpeg ('ffmpeg') not found. Please ensure ffmpeg is installed and in your system PATH."]

\* extract_audio_from_video, lines 82-84 and 85-86.
ExtractionFailed ==
    [type |-> "RuntimeError",
     msg |-> "ffmpeg audio extraction failed. Return code: 1. Error: v.mp4: No such file or directory"]

FfmpegNotRunnable ==
    [type |-> "FileNotFoundError",
     msg |-> "ffmpeg executable not found at /usr/bin/ffmpeg when trying to run subprocess."]

\* What an engine call may raise: two spellings of the accelerator's
\* exhaustion message, and an error of another kind.
OomError == [type |-> "RuntimeError", msg |-> "CUDA out of memory."]

OomErrorUpper == [type |-> "RuntimeError", msg |-> "CUDA error: Out Of Memory"]

OtherError == [type |-> "ValueError", msg |-> "engine failed"]

EngineErrors == {OomError, OomErrorUpper, OtherError}

\* What the writer and the file system may raise.
IoError == [type |-> "OSError", msg |-> "disk full"]

\* "out of memory" in str(e).lower()
SignalsOom(e) == Contains(Lower(e.msg), "out of memory")

\* A model object: what it is and where it lives.
ModelOn(kind, dev) == [kind |-> kind, device |-> dev]

\* The model objects main()'s variables refer to.
Referenced(fr) ==
    {fr.funasr_pipeline, fr.model, fr.model_a, fr.diarize_model} \ {None}

\* Reference counting: an object no variable refers to is freed.
Collect(h, fr) == {o \in h : o \in Referenced(fr)}

\* cleanup_model, lines 41-53: `del model` unbinds the function's own
\* parameter; gc.collect() and empty_cache() free what nothing refers to;
\* the caller's variable still refers to the object.
CleanupModel(h, fr) == {o \in h : o \in Referenced(fr)}

\* Python truthiness of a result dict.
Truthy(d) == ~("is_none" \in DOMAIN d) /\ DOMAIN d # {}

\* "language" not in r or not r.get("language")
LacksLanguage(r) ==
    ~("language" \in DOMAIN r) \/ r.language \in {NULL, ""}

\* r["language"] = lang
WithLanguage(r, lang) ==
    [k \in DOMAIN r \cup {"language"} |-> IF k = "language" THEN lang ELSE r[k]]

\* Lines 400-401 and 553-554 without the assignment.
BackfillLanguage_Skipped(r, lang) == r

\* Lines 400-401 and 553-554.
BackfillLanguage(r, lang) == IF LacksLanguage(r) THEN WithLanguage(r, lang) ELSE r

\* whisperx.align: every segment gains its word timings; the returned dict
\* carries no "language".
AlignResult(segments) ==
    [segments |-> [k \in 1..Len(segments) |->
                      [f \in DOMAIN segments[k] \cup {"words"} |->
                          IF f = "words" THEN "timed" ELSE segments[k][f]]],
     word_segments |-> "timed"]

\* whisperx.assign_word_speakers: every segment gains a speaker label.
AssignResult(aligned) ==
    [aligned EXCEPT !.segments =
        [k \in 1..Len(aligned.segments) |->
            [f \in DOMAIN aligned.segments[k] \cup {"speaker"} |->
                IF f = "speaker" THEN "SPEAKER_00" ELSE aligned.segments[k][f]]]]

\* WriteSRT.write_result: the subtitle text of a result.
EmptySrt == [rendered |-> FALSE]

Render(r) == [rendered |-> TRUE, segments |-> r.segments, language |-> r.language]

\* An entry of the call log.
Call(name, dev, err) == [call |-> name, device |-> dev, err |-> err]

CallWith(name, dev, err, arg) == [call |-> name, device |-> dev, err |-> err, arg |-> arg]

\* PROGRESS_JSON lines.
Ev(type, progress) == [type |-> type, progress |-> progress]

Msg(type) == [type |-> type]

\* One step of main(): the next position, the new locals, the heap (after
\* what the step released, plus the object the next call constructs), the
\* call that completed, the lines printed to stdout.
Step(p, fr, h, building, entries, events) ==
    /\ pc' = p
    /\ frame' = fr
    /\ heap' = Collect(h, fr) \cup building
    /\ calls' = calls \o entries
    /\ stdout' = stdout \o events
    /\ UNCHANGED <<args, stderr, out_file, temp_file, exit_code, mvars, fvars>>

\* An exception reaching the handler of line 577.
Raise(e, h, entries, events) ==
    Step("handle_error", [frame EXCEPT !.e = e], h, {}, entries, events)

(***************************************************************************)
(* main(), lines 222-245: ffmpeg, the temporary file, extraction, audio.   *)
(***************************************************************************)

\* Lines 224-237.
GetFfmpegPath ==
    /\ pc = "get_ffmpeg_path"
    /\ \/ /\ pc' = "extract_audio"
          /\ frame' = [frame EXCEPT !.temp_audio_file_path = "tmp.wav"]
          /\ temp_file' = TRUE
          /\ calls' = Append(calls, Call("get_ffmpeg_path", "-", NoError))
          /\ stdout' = stdout \o <<Msg("info"), Msg("info"), Ev("info", 5)>>
          /\ UNCHANGED <<args, heap, stderr, out_file, exit_code, mvars, fvars>>
       \/ Raise(FfmpegNotInPath, heap,
                <<Call("get_ffmpeg_path", "-", FfmpegNotInPath)>>, <<>>)

\* Lines 238-243 with the failure of ffmpeg not raised (check=False).
ExtractAudio_IgnoresFailure ==
    /\ pc = "extract_audio"
    /\ \/ \E dev \in {"cuda", "cpu"} :
            Step("load_audio", [frame EXCEPT !.device = dev], heap, {},
                 <<Call("extract_audio", "-", NoError)>>,
                 <<Ev("info", 15), Ev("info", 18)>>)
       \/ \E e \in {ExtractionFailed, FfmpegNotRunnable} : \E dev \in {"cuda", "cpu"} :
            Step("load_audio", [frame EXCEPT !.device = dev], heap, {},
                 <<Call("extract_audio", "-", e)>>,
                 <<Ev("info", 15), Ev("info", 18)>>)

\* Lines 238-243.
ExtractAudio ==
    /\ pc = "extract_audio"
    /\ \/ \E dev \in {"cuda", "cpu"} :
            Step("load_audio", [frame EXCEPT !.device = dev], heap, {},
                 <<Call("extract_audio", "-", NoError)>>,
                 <<Ev("info", 15), Ev("info", 18)>>)
       \/ \E e \in {ExtractionFailed, FfmpegNotRunnable} :
            Raise(e, heap, <<Call("extract_audio", "-", e)>>, <<>>)

\* Line 258 without the call of lower().
UsesFunasr_CaseSensitive ==
    args.language # NULL /\ args.language # "" /\ StartsWith(args.language, "zh")

\* Line 258.
UsesFunasr == args.language # NULL /\ args.language # "" /\ StartsWith(Lower(args.language), "zh")

\* Lines 244-260 and 416-442.
LoadAudio ==
    /\ pc = "load_audio"
    /\ \/ LET fr == [frame EXCEPT !.detected_language = args.language] IN
            IF UsesFunasr
            THEN Step("f_auto_model", fr, heap, {ModelOn("funasr", frame.device)},
                      <<Call("load_audio", "-", NoError)>>,
                      <<Ev("info", 19), Ev("info", 20)>>)
            ELSE Step("w_load_model", fr, heap, {ModelOn("whisperx", frame.device)},
                      <<Call("load_audio", "-", NoError)>>,
                      <<Ev("info", 19), Ev("info", 20)>>)
       \/ Raise(OtherError, heap, <<Call("load_audio", "-", OtherError)>>, <<>>)

(***************************************************************************)
(* main(), lines 259-412: the FunASR path.                                 *)
(***************************************************************************)

\* Lines 410-412: the path's own handler prints an error line and raises a
\* RuntimeError quoting the message.
FunasrFailed(e, h, entries, events) ==
    Raise([type |-> "RuntimeError", msg |-> "FunASR processing failed: " \o e.msg],
          h, entries, events \o <<Msg("error")>>)

\* What funasr_pipeline.generate may return.
GenerateResults ==
    { <<>>,
      <<[is_dict |-> TRUE, sentence_info |->
            <<[text |-> "Hi", start |-> 0, end |-> 500, spk |-> "A"],
              [text |-> "there", start |-> 600, end |-> 900, spk |-> "A"]>>]>>,
      <<[is_dict |-> TRUE, sentence_info |->
            <<[text |-> "Hi", start |-> 0, end |-> 500, spk |-> "A"],
              [text |-> "there", start |-> 600, end |-> 900, spk |-> "B"]>>]>> }

\* Lines 316-328: transcription is complete; the model is cleaned up and
\* _process_funasr_segments is called.
FunasrTranscribed(results, callName, dev) ==
    /\ pc' = "f_process"
    /\ frame' = [frame EXCEPT !.detected_language = "zh", !.funasr_results = results]
    /\ heap' = CleanupModel(heap, frame)
    /\ calls' = Append(calls, Call(callName, dev, NoError))
    /\ stdout' = Append(stdout,
                    [type |-> "info", progress |-> 65, detected_language |-> "zh"])
    /\ funasr_output_list' = results
    /\ diarization_enabled' = args.enable_diarization
    /\ enable_segment_merging' = args.enable_segment_merging
    /\ max_merge_gap_ms' = args.max_merge_gap_ms
    /\ max_merged_segment_duration_ms' = args.max_merged_segment_duration_ms
    /\ raw_segments_ms_spk' = <<>>
    /\ processed_segments_ms_spk' = <<>>
    /\ mpc' = "extract"
    /\ UNCHANGED <<current_merged_segment, i, package>>
    /\ UNCHANGED <<args, stderr, out_file, temp_file, exit_code, fvars>>

\* Lines 262-273.
FunasrAutoModel ==
    /\ pc = "f_auto_model"
    /\ \/ Step("f_generate",
               [frame EXCEPT !.funasr_pipeline = ModelOn("funasr", frame.device)],
               heap, {}, <<Call("AutoModel", frame.device, NoError)>>,
               <<Ev("info", 30), Ev("info", 35)>>)
       \/ \E e \in EngineErrors :
            FunasrFailed(e, heap, <<Call("AutoModel", frame.device, e)>>, <<>>)

\* Lines 275-328.
FunasrGenerate ==
    /\ pc = "f_generate"
    /\ \/ \E results \in GenerateResults :
            FunasrTranscribed(results, "generate", frame.device)
       \/ \E e \in EngineErrors :
            /\ SignalsOom(e) /\ frame.device = "cuda"
            /\ Step("f_auto_model_cpu", frame, CleanupModel(heap, frame),
                    {ModelOn("funasr", "cpu")},
                    <<Call("generate", frame.device, e)>>, <<Msg("warning")>>)
       \/ \E e \in EngineErrors :
            /\ ~(SignalsOom(e) /\ frame.device = "cuda")
            /\ FunasrFailed(e, heap, <<Call("generate", frame.device, e)>>, <<>>)

\* Lines 295-304 printing the progress of lines 271-273 again.
FunasrAutoModelCpu_RepeatsProgress ==
    /\ pc = "f_auto_model_cpu"
    /\ \/ Step("f_generate_cpu",
               [frame EXCEPT !.funasr_pipeline = ModelOn("funasr", "cpu")],
               heap, {}, <<Call("AutoModel", "cpu", NoError)>>,
               <<Ev("info", 30), Ev("info", 35)>>)
       \/ \E e \in EngineErrors :
            FunasrFailed(e, heap, <<Call("AutoModel", "cpu", e)>>, <<>>)

\* Lines 295-304.
FunasrAutoModelCpu ==
    /\ pc = "f_auto_model_cpu"
    /\ \/ Step("f_generate_cpu",
               [frame EXCEPT !.funasr_pipeline = ModelOn("funasr", "cpu")],
               heap, {}, <<Call("AutoModel", "cpu", NoError)>>, <<Ev("info", 45)>>)
       \/ \E e \in EngineErrors :
            FunasrFailed(e, heap, <<Call("AutoModel", "cpu", e)>>, <<>>)

\* Lines 305-328 going back to the construction on the CPU when the CPU run
\* is exhausted too.
FunasrGenerateCpu_RetriesAgain ==
    /\ pc = "f_generate_cpu"
    /\ \/ \E results \in GenerateResults :
            FunasrTranscribed(results, "generate", "cpu")
       \/ \E e \in EngineErrors :
            /\ SignalsOom(e)
            /\ Step("f_auto_model_cpu", frame, CleanupModel(heap, frame),
                    {ModelOn("funasr", "cpu")},
                    <<Call("generate", "cpu", e)>>, <<Msg("warning")>>)
       \/ \E e \in EngineErrors :
            /\ ~SignalsOom(e)
            /\ FunasrFailed(e, heap, <<Call("generate", "cpu", e)>>, <<>>)

\* Lines 305-328.
FunasrGenerateCpu ==
    /\ pc = "f_generate_cpu"
    /\ \/ \E results \in GenerateResults :
            FunasrTranscribed(results, "generate", "cpu")
       \/ \E e \in EngineErrors :
            FunasrFailed(e, heap, <<Call("generate", "cpu", e)>>, <<>>)

\* The test of args.hf_token left out of lines 380 and 514.
HasToken_IgnoresToken == TRUE

\* args.hf_token is given and not empty.
HasToken == args.hf_token # NULL /\ args.hf_token # ""

\* Lines 399-403: the language is backfilled and the writer is reached.
FunasrToWriter(fr, h, entries, events) ==
    Step("f_write",
         [fr EXCEPT !.result_to_use_for_srt = BackfillLanguage(fr.result_to_use_for_srt, "zh")],
         h, {}, entries, events \o <<Ev("info", 90)>>)

\* Lines 366-397: the finally clause of the alignment, then the choice of
\* the result and of the diarization.
FunasrAfterAlign(fr, h, entries, events) ==
    LET h1 == CleanupModel(h, fr) IN
    IF Truthy(fr.aligned)
    THEN LET fr1 == [fr EXCEPT !.result_to_use_for_srt = fr.aligned] IN
         IF args.enable_diarization /\ HasToken
         THEN Step("f_diar_pipeline", [fr1 EXCEPT !.diarize_model = None], h1,
                   {ModelOn("diarize", fr.device)}, entries,
                   events \o <<Ev("info", 80)>>)
         ELSE IF args.enable_diarization
         THEN FunasrToWriter(fr1, h1, entries, events \o <<Ev("warning", 80)>>)
         ELSE FunasrToWriter(fr1, h1, entries, events)
    ELSE FunasrToWriter(
            [fr EXCEPT !.result_to_use_for_srt = [segments |-> fr.segments_for_alignment]],
            h1, entries, events)

\* Lines 345-364 without the else branch of line 360: an alignment error
\* that starts no retry leaves the try statement.
FunasrAlignError_Aborts(e, callName) ==
    IF SignalsOom(e) /\ frame.device = "cuda"
    THEN Step("f_load_align_cpu", frame, CleanupModel(heap, frame),
              {ModelOn("align", "cpu")},
              <<Call(callName, frame.device, e)>>, <<Msg("warning")>>)
    ELSE FunasrFailed(e, CleanupModel(heap, frame),
              <<Call(callName, frame.device, e)>>, <<>>)

\* Lines 345-364: the handler of an alignment error raised on the primary
\* device.
FunasrAlignError(e, callName) ==
    IF SignalsOom(e) /\ frame.device = "cuda"
    THEN Step("f_load_align_cpu", frame, CleanupModel(heap, frame),
              {ModelOn("align", "cpu")},
              <<Call(callName, frame.device, e)>>, <<Msg("warning")>>)
    ELSE FunasrAfterAlign([frame EXCEPT !.alignment_failed = TRUE], heap,
              <<Call(callName, frame.device, e)>>, <<Msg("warning"), Msg("warning")>>)

\* Lines 330-342 with the branch of line 333 also taken for one segment.
FunasrProcessed_SkipsSingleSegment ==
    /\ pc = "f_process"
    /\ mpc = "returned"
    /\ LET segments == package.transcription_result.segments
           fr == [frame EXCEPT !.segments_for_alignment = segments]
       IN IF Len(segments) <= 1
          THEN Step("output", [fr EXCEPT !.full_srt_output = EmptySrt], heap, {},
                    <<>>, <<Msg("info")>>)
          ELSE Step("f_load_align", [fr EXCEPT !.aligned = None, !.model_a = None],
                    heap, {ModelOn("align", frame.device)}, <<>>, <<Ev("info", 70)>>)

\* Lines 330-342, once _process_funasr_segments has returned.
FunasrProcessed ==
    /\ pc = "f_process"
    /\ mpc = "returned"
    /\ LET segments == package.transcription_result.segments
           fr == [frame EXCEPT !.segments_for_alignment = segments]
       IN IF segments = <<>>
          THEN Step("output", [fr EXCEPT !.full_srt_output = EmptySrt], heap, {},
                    <<>>, <<Msg("info")>>)
          ELSE Step("f_load_align", [fr EXCEPT !.aligned = None, !.model_a = None],
                    heap, {ModelOn("align", frame.device)}, <<>>, <<Ev("info", 70)>>)

\* Line 342.
FunasrLoadAlign ==
    /\ pc = "f_load_align"
    /\ \/ Step("f_align", [frame EXCEPT !.model_a = ModelOn("align", frame.device)],
               heap, {}, <<Call("load_align_model", frame.device, NoError)>>, <<>>)
       \/ \E e \in EngineErrors : FunasrAlignError(e, "load_align_model")

\* Lines 343-344.
FunasrAlign ==
    /\ pc = "f_align"
    /\ \/ FunasrAfterAlign(
            [frame EXCEPT !.aligned = AlignResult(frame.segments_for_alignment)],
            heap, <<Call("align", frame.device, NoError)>>, <<Ev("info", 75)>>)
       \/ \E e \in EngineErrors : FunasrAlignError(e, "align")

\* Line 357; an error here leaves the handler through the finally clause.
FunasrLoadAlignCpu ==
    /\ pc = "f_load_align_cpu"
    /\ \/ Step("f_align_cpu", [frame EXCEPT !.model_a = ModelOn("align", "cpu")],
               heap, {}, <<Call("load_align_model", "cpu", NoError)>>, <<>>)
       \/ \E e \in EngineErrors :
            FunasrFailed(e, CleanupModel(heap, frame),
                         <<Call("load_align_model", "cpu", e)>>, <<>>)

\* Lines 358-359.
FunasrAlignCpu ==
    /\ pc = "f_align_cpu"
    /\ \/ FunasrAfterAlign(
            [frame EXCEPT !.aligned = AlignResult(frame.segments_for_alignment)],
            heap, <<Call("align", "cpu", NoError)>>, <<Ev("info", 75)>>)
       \/ \E e \in EngineErrors :
            FunasrFailed(e, CleanupModel(heap, frame), <<Call("align", "cpu", e)>>, <<>>)

\* Lines 388-392: a diarization error is reported and the model cleaned up.
FunasrDiarizationError(e, callName) ==
    FunasrToWriter(frame, CleanupModel(heap, frame),
                   <<Call(callName, frame.device, e)>>, <<Ev("warning", 83)>>)

\* Line 384.
FunasrDiarizationPipeline ==
    /\ pc = "f_diar_pipeline"
    /\ \/ Step("f_diarize",
               [frame EXCEPT !.diarize_model = ModelOn("diarize", frame.device)],
               heap, {}, <<Call("DiarizationPipeline", frame.device, NoError)>>, <<>>)
       \/ \E e \in EngineErrors : FunasrDiarizationError(e, "DiarizationPipeline")

\* Line 385.
FunasrDiarize ==
    /\ pc = "f_diarize"
    /\ \/ Step("f_assign", frame, heap, {},
               <<Call("diarize", frame.device, NoError)>>, <<>>)
       \/ \E e \in EngineErrors : FunasrDiarizationError(e, "diarize")

\* Lines 386-392.
FunasrAssign ==
    /\ pc = "f_assign"
    /\ \/ FunasrToWriter(
            [frame EXCEPT !.result_to_use_for_srt = AssignResult(frame.aligned)],
            CleanupModel(heap, frame),
            <<Call("assign_word_speakers", "-", NoError)>>, <<Ev("info", 85)>>)
       \/ \E e \in EngineErrors : FunasrDiarizationError(e, "assign_word_speakers")

\* Lines 404-408 followed by the alignment of line 342.
FunasrWrite_AlignsAfterWriting ==
    /\ pc = "f_write"
    /\ \/ Step("f_load_align",
               [frame EXCEPT !.full_srt_output = Render(frame.result_to_use_for_srt)],
               heap, {ModelOn("align", frame.device)},
               <<CallWith("write_result", "-", NoError, frame.result_to_use_for_srt)>>,
               <<Ev("info", 95)>>)
       \/ FunasrFailed(IoError, heap,
               <<CallWith("write_result", "-", IoError, frame.result_to_use_for_srt)>>,
               <<>>)

\* Lines 404-408.
FunasrWrite ==
    /\ pc = "f_write"
    /\ \/ Step("output",
               [frame EXCEPT !.full_srt_output = Render(frame.result_to_use_for_srt)],
               heap, {},
               <<CallWith("write_result", "-", NoError, frame.result_to_use_for_srt)>>,
               <<Ev("info", 95)>>)
       \/ FunasrFailed(IoError, heap,
               <<CallWith("write_result", "-", IoError, frame.result_to_use_for_srt)>>,
               <<>>)

(***************************************************************************)
(* main(), lines 414-562: the WhisperX path.                               *)
(***************************************************************************)

\* The language WhisperX reports when none is declared.
DetectedLanguages == {"en", "zh"}

DirectSegments ==
    { <<>>,
      <<[text |-> "hello", start |-> ToSeconds(0), end |-> ToSeconds(1200)]>> }

\* What model.transcribe may return.
TranscribeResults ==
    { [segments |-> segs, language |-> lang] :
        segs \in DirectSegments,
        lang \in IF args.language \in {NULL, ""} THEN DetectedLanguages
                 ELSE {args.language} }

\* Lines 469-477: transcription is complete; the model is cleaned up and
\* the alignment model is loaded.
WhisperxTranscribed(result, dev) ==
    Step("w_load_align",
         [frame EXCEPT !.result = result, !.detected_language = result.language,
                       !.aligned = None, !.model_a = None],
         CleanupModel(heap, frame), {ModelOn("align", frame.device)},
         <<Call("transcribe", dev, NoError)>>,
         <<[type |-> "info", progress |-> 60, detected_language |-> result.language]>>)

\* Lines 435-446.
WhisperxLoadModel ==
    /\ pc = "w_load_model"
    /\ \/ Step("w_transcribe",
               [frame EXCEPT !.model = ModelOn("whisperx", frame.device)],
               heap, {}, <<Call("load_model", frame.device, NoError)>>,
               <<Ev("info", 30), Ev("info", 35)>>)
       \/ \E e \in EngineErrors :
            Raise(e, heap, <<Call("load_model", frame.device, e)>>, <<>>)

\* Lines 447-477 with the test of the device left out of line 450.
WhisperxTranscribe_RetriesOnCpuToo ==
    /\ pc = "w_transcribe"
    /\ \/ \E result \in TranscribeResults : WhisperxTranscribed(result, frame.device)
       \/ \E e \in EngineErrors :
            /\ SignalsOom(e)
            /\ Step("w_load_model_cpu", frame, CleanupModel(heap, frame),
                    {ModelOn("whisperx", "cpu")},
                    <<Call("transcribe", frame.device, e)>>, <<Msg("warning")>>)
       \/ \E e \in EngineErrors :
            /\ ~SignalsOom(e)
            /\ Raise(e, heap, <<Call("transcribe", frame.device, e)>>, <<>>)

\* Lines 447-477.
WhisperxTranscribe ==
    /\ pc = "w_transcribe"
    /\ \/ \E result \in TranscribeResults : WhisperxTranscribed(result, frame.device)
       \/ \E e \in EngineErrors :
            /\ SignalsOom(e) /\ frame.device = "cuda"
            /\ Step("w_load_model_cpu", frame, CleanupModel(heap, frame),
                    {ModelOn("whisperx", "cpu")},
                    <<Call("transcribe", frame.device, e)>>, <<Msg("warning")>>)
       \/ \E e \in EngineErrors :
            /\ ~(SignalsOom(e) /\ frame.device = "cuda")
            /\ Raise(e, heap, <<Call("transcribe", frame.device, e)>>, <<>>)

\* Lines 456-464.
WhisperxLoadModelCpu ==
    /\ pc = "w_load_model_cpu"
    /\ \/ Step("w_transcribe_cpu", [frame EXCEPT !.model = ModelOn("whisperx", "cpu")],
               heap, {}, <<Call("load_model", "cpu", NoError)>>, <<Msg("info")>>)
       \/ \E e \in EngineErrors :
            Raise(e, heap, <<Call("load_model", "cpu", e)>>, <<>>)

\* Lines 465-477.
WhisperxTranscribeCpu ==
    /\ pc = "w_transcribe_cpu"
    /\ \/ \E result \in TranscribeResults : WhisperxTranscribed(result, "cpu")
       \/ \E e \in EngineErrors :
            Raise(e, heap, <<Call("transcribe", "cpu", e)>>, <<>>)

\* Lines 534-556: the result handed to the writer.
WhisperxToWriter(fr, h, entries, events) ==
    LET chosen == IF Truthy(fr.result_diarized) THEN fr.result_diarized
                  ELSE IF Truthy(fr.aligned) THEN fr.aligned
                  ELSE fr.result
    IN Step("w_write",
            [fr EXCEPT !.result_to_use_for_srt =
                            BackfillLanguage(chosen, fr.detected_language)],
            h, {}, entries, events \o <<Ev("info", 90)>>)

\* Lines 502-532 without the test of aligned_result at line 511.
WhisperxAfterAlign_IgnoresAlignment(fr0, h, entries, events) ==
    LET h1 == CleanupModel(h, fr0)
        fr == [fr0 EXCEPT !.result_diarized = None]
    IN IF args.enable_diarization /\ HasToken
       THEN Step("w_diar_pipeline", [fr EXCEPT !.diarize_model = None], h1,
                 {ModelOn("diarize", fr.device)}, entries,
                 events \o <<Ev("info", 80)>>)
       ELSE IF args.enable_diarization
       THEN WhisperxToWriter(fr, h1, entries, events \o <<Ev("warning", 80)>>)
       ELSE WhisperxToWriter(fr, h1, entries, events)

\* Lines 502-532: the finally clause of the alignment, then the diarization.
WhisperxAfterAlign(fr0, h, entries, events) ==
    LET h1 == CleanupModel(h, fr0)
        fr == [fr0 EXCEPT !.result_diarized = None]
    IN IF Truthy(fr.aligned) /\ args.enable_diarization /\ HasToken
       THEN Step("w_diar_pipeline", [fr EXCEPT !.diarize_model = None], h1,
                 {ModelOn("diarize", fr.device)}, entries,
                 events \o <<Ev("info", 80)>>)
       ELSE IF Truthy(fr.aligned) /\ args.enable_diarization
       THEN WhisperxToWriter(fr, h1, entries, events \o <<Ev("warning", 80)>>)
       ELSE WhisperxToWriter(fr, h1, entries, events)

\* Lines 482-501.
WhisperxAlignError(e, callName) ==
    IF SignalsOom(e) /\ frame.device = "cuda"
    THEN Step("w_load_align_cpu", frame, CleanupModel(heap, frame),
              {ModelOn("align", "cpu")},
              <<Call(callName, frame.device, e)>>, <<Msg("warning")>>)
    ELSE WhisperxAfterAlign([frame EXCEPT !.alignment_failed = TRUE], heap,
              <<Call(callName, frame.device, e)>>, <<Msg("warning"), Msg("warning")>>)

\* Line 479.
WhisperxLoadAlign ==
    /\ pc = "w_load_align"
    /\ \/ Step("w_align", [frame EXCEPT !.model_a = ModelOn("align", frame.device)],
               heap, {}, <<Call("load_align_model", frame.device, NoError)>>, <<>>)
       \/ \E e \in EngineErrors : WhisperxAlignError(e, "load_align_model")

\* Lines 480-481.
WhisperxAlign ==
    /\ pc = "w_align"
    /\ \/ WhisperxAfterAlign(
            [frame EXCEPT !.aligned = AlignResult(frame.result.segments)],
            heap, <<Call("align", frame.device, NoError)>>, <<Ev("info", 75)>>)
       \/ \E e \in EngineErrors : WhisperxAlignError(e, "align")

\* Line 494; an error here leaves the handler through the finally clause.
WhisperxLoadAlignCpu ==
    /\ pc = "w_load_align_cpu"
    /\ \/ Step("w_align_cpu", [frame EXCEPT !.model_a = ModelOn("align", "cpu")],
               heap, {}, <<Call("load_align_model", "cpu", NoError)>>, <<>>)
       \/ \E e \in EngineErrors :
            Raise(e, CleanupModel(heap, frame),
                  <<Call("load_align_model", "cpu", e)>>, <<>>)

\* Lines 495-496.
WhisperxAlignCpu ==
    /\ pc = "w_align_cpu"
    /\ \/ WhisperxAfterAlign(
            [frame EXCEPT !.aligned = AlignResult(frame.result.segments)],
            heap, <<Call("align", "cpu", NoError)>>, <<Ev("info", 75)>>)
       \/ \E e \in EngineErrors :
            Raise(e, CleanupModel(heap, frame), <<Call("align", "cpu", e)>>, <<>>)

\* Lines 525-530.
WhisperxDiarizationError(e, callName) ==
    WhisperxToWriter(frame, CleanupModel(heap, frame),
                     <<Call(callName, frame.device, e)>>, <<Ev("warning", 85)>>)

\* Line 518.
WhisperxDiarizationPipeline ==
    /\ pc = "w_diar_pipeline"
    /\ \/ Step("w_diarize",
               [frame EXCEPT !.diarize_model = ModelOn("diarize", frame.device)],
               heap, {}, <<Call("DiarizationPipeline", frame.device, NoError)>>, <<>>)
       \/ \E e \in EngineErrors : WhisperxDiarizationError(e, "DiarizationPipeline")

\* Line 519.
WhisperxDiarize ==
    /\ pc = "w_diarize"
    /\ \/ Step("w_diarize_again", frame, heap, {},
               <<Call("diarize", frame.device, NoError)>>, <<>>)
       \/ \E e \in EngineErrors : WhisperxDiarizationError(e, "diarize")

\* Lines 520-521.
WhisperxDiarizeAgain ==
    /\ pc = "w_diarize_again"
    /\ \/ Step("w_assign", frame, heap, {},
               <<Call("diarize", frame.device, NoError)>>, <<>>)
       \/ \E e \in EngineErrors : WhisperxDiarizationError(e, "diarize")

\* Lines 523-530.
WhisperxAssign ==
    /\ pc = "w_assign"
    /\ \/ WhisperxToWriter(
            [frame EXCEPT !.result_diarized = AssignResult(frame.aligned)],
            CleanupModel(heap, frame),
            <<Call("assign_word_speakers", "-", NoError)>>, <<Ev("info", 90)>>)
       \/ \E e \in EngineErrors : WhisperxDiarizationError(e, "assign_word_speakers")

\* Lines 556-562.
WhisperxWrite ==
    /\ pc = "w_write"
    /\ \/ Step("output",
               [frame EXCEPT !.full_srt_output = Render(frame.result_to_use_for_srt)],
               heap, {},
               <<CallWith("write_result", "-", NoError, frame.result_to_use_for_srt)>>,
               <<Ev("info", 95)>>)
       \/ Raise(IoError, heap,
               <<CallWith("write_result", "-", IoError, frame.result_to_use_for_srt)>>,
               <<>>)

(***************************************************************************)
(* main(), lines 565-612: output, the error handler, the finally clause.   *)
(***************************************************************************)

NoFile == [written |-> FALSE]

HasOutputPath == args.output_srt_path # NULL /\ args.output_srt_path # ""

\* Lines 566-575.
Output ==
    /\ pc = "output"
    /\ \/ /\ HasOutputPath
          /\ out_file' = [written |-> TRUE, content |-> frame.full_srt_output]
          /\ stdout' = Append(stdout,
                [type |-> "complete", progress |-> 100,
                 output_path |-> args.output_srt_path,
                 detected_language |-> frame.detected_language,
                 alignment |-> IF frame.alignment_failed THEN "failed" ELSE "ok"])
          /\ calls' = Append(calls, Call("open", "-", NoError))
          /\ pc' = "finally"
          /\ UNCHANGED <<args, frame, heap, stderr, temp_file, exit_code, mvars, fvars>>
       \/ /\ HasOutputPath
          /\ Raise(IoError, heap, <<Call("open", "-", IoError)>>, <<>>)
       \/ /\ ~HasOutputPath
          /\ stdout' = Append(stdout, [type |-> "srt", text |-> frame.full_srt_output])
          /\ stderr' = Append(stderr,
                [type |-> "complete", progress |-> 100,
                 detected_language |-> frame.detected_language])
          /\ pc' = "finally"
          /\ UNCHANGED <<args, frame, heap, calls, out_file, temp_file, exit_code, mvars, fvars>>

\* Lines 578-595 without the else branch of line 593: the initial value of
\* error_code is kept.
ErrorCode_KeepsInitialCode(e) ==
    IF Contains(e.msg, "ffmpeg executable not found") THEN "FFMPEG_NOT_FOUND"
    ELSE IF Contains(e.msg, "ffmpeg audio extraction failed") THEN "AUDIO_EXTRACTION_FAILED"
    ELSE IF e.type = "FileNotFoundError" /\ Contains(e.msg, args.video_file_path)
         THEN "INPUT_VIDEO_NOT_FOUND"
    ELSE IF Contains(Lower(e.msg), "out of memory") THEN "OUT_OF_MEMORY"
    ELSE "PROCESSING_FAILED"

\* Lines 578-595.
ErrorCode(e) ==
    IF Contains(e.msg, "ffmpeg executable not found") THEN "FFMPEG_NOT_FOUND"
    ELSE IF Contains(e.msg, "ffmpeg audio extraction failed") THEN "AUDIO_EXTRACTION_FAILED"
    ELSE IF e.type = "FileNotFoundError" /\ Contains(e.msg, args.video_file_path)
         THEN "INPUT_VIDEO_NOT_FOUND"
    ELSE IF Contains(Lower(e.msg), "out of memory") THEN "OUT_OF_MEMORY"
    ELSE "ASR_PROCESSING_FAILED"

\* Lines 577-606 without the sys.exit(1) of line 606.
HandleError_NoExit ==
    /\ pc = "handle_error"
    /\ stderr' = Append(stderr,
            [error_code |-> ErrorCode(frame.e), details |-> frame.e.msg])
    /\ stdout' = Append(stdout,
            [type |-> "error", error_code |-> ErrorCode(frame.e), details |-> frame.e.msg])
    /\ pc' = "finally"
    /\ UNCHANGED <<args, frame, heap, calls, out_file, temp_file, exit_code, mvars, fvars>>

\* Lines 577-606: the payload on stderr, the error line on stdout, exit(1).
HandleError ==
    /\ pc = "handle_error"
    /\ stderr' = Append(stderr,
            [error_code |-> ErrorCode(frame.e), details |-> frame.e.msg])
    /\ stdout' = Append(stdout,
            [type |-> "error", error_code |-> ErrorCode(frame.e), details |-> frame.e.msg])
    /\ pc' = "finally_exit"
    /\ UNCHANGED <<args, frame, heap, calls, out_file, temp_file, exit_code, mvars, fvars>>

\* Lines 607-612 with the removal moved to the end of the try block, where a
\* run that failed does not reach it.
Finally_RemovesOnlyOnSuccess ==
    /\ pc \in {"finally", "finally_exit"}
    /\ exit_code' = IF pc = "finally_exit" THEN 1 ELSE 0
    /\ pc' = "exited"
    /\ \/ /\ pc = "finally" /\ frame.temp_audio_file_path # NULL /\ temp_file
          /\ temp_file' = FALSE
          /\ calls' = Append(calls, Call("os.remove", "-", NoError))
          /\ UNCHANGED stdout
       \/ /\ pc = "finally" /\ frame.temp_audio_file_path # NULL /\ temp_file
          /\ calls' = Append(calls, Call("os.remove", "-", IoError))
          /\ stdout' = Append(stdout, Msg("warning"))
          /\ UNCHANGED temp_file
       \/ /\ ~(pc = "finally" /\ frame.temp_audio_file_path # NULL /\ temp_file)
          /\ UNCHANGED <<temp_file, calls, stdout>>
    /\ UNCHANGED <<args, frame, heap, stderr, out_file, mvars, fvars>>

\* Lines 607-612, then the end of the process: status 1 after sys.exit(1),
\* 0 otherwise.
Finally ==
    /\ pc \in {"finally", "finally_exit"}
    /\ exit_code' = IF pc = "finally_exit" THEN 1 ELSE 0
    /\ pc' = "exited"
    /\ \/ /\ frame.temp_audio_file_path # NULL /\ temp_file
          /\ temp_file' = FALSE
          /\ calls' = Append(calls, Call("os.remove", "-", NoError))
          /\ UNCHANGED stdout
       \/ /\ frame.temp_audio_file_path # NULL /\ temp_file
          /\ calls' = Append(calls, Call("os.remove", "-", IoError))
          /\ stdout' = Append(stdout, Msg("warning"))
          /\ UNCHANGED temp_file
       \/ /\ ~(frame.temp_audio_file_path # NULL /\ temp_file)
          /\ UNCHANGED <<temp_file, calls, stdout>>
    /\ UNCHANGED <<args, frame, heap, stderr, out_file, mvars, fvars>>

(***************************************************************************)
(* The run of main().                                                      *)
(***************************************************************************)

\* Defaults of --max_merge_gap_ms and --max_merged_segment_duration_ms.
DefaultMaxMergeGapMs == 2000

DefaultMaxMergedSegmentDurationMs == 10000

\* The command lines: --enable_segment_merging is a store_true flag whose
\* default is True, so it is always True.
Arguments ==
    [video_file_path : {"v.mp4"},
     language : {NULL, "Zh-CN", "en"},
     output_srt_path : {NULL, "out.srt"},
     enable_diarization : BOOLEAN,
     hf_token : {NULL, "hf_token"},
     enable_segment_merging : {TRUE},
     max_merge_gap_ms : {DefaultMaxMergeGapMs},
     max_merged_segment_duration_ms : {DefaultMaxMergedSegmentDurationMs}]

InitialFrame ==
    [temp_audio_file_path |-> NULL, device |-> NULL, detected_language |-> NULL,
     alignment_failed |-> FALSE,
     funasr_pipeline |-> None, model |-> None, model_a |-> None, diarize_model |-> None,
     funasr_results |-> <<>>, segments_for_alignment |-> <<>>,
     result |-> None, aligned |-> None, result_diarized |-> None,
     result_to_use_for_srt |-> None, full_srt_output |-> EmptySrt, e |-> NoError]

MergerIdle ==
    /\ funasr_output_list = <<>>
    /\ diarization_enabled = FALSE
    /\ enable_segment_merging = TRUE
    /\ max_merge_gap_ms = 0
    /\ max_merged_segment_duration_ms = 0
    /\ raw_segments_ms_spk = <<>>
    /\ processed_segments_ms_spk = <<>>
    /\ current_merged_segment = NULL
    /\ i = 0
    /\ mpc = "idle"
    /\ package = NULL

MainIdle ==
    /\ frame = InitialFrame
    /\ heap = {}
    /\ calls = <<>>
    /\ stdout = <<>>
    /\ stderr = <<>>
    /\ out_file = NoFile
    /\ temp_file = FALSE
    /\ exit_code = -1

Init ==
    /\ pc = "get_ffmpeg_path"
    /\ args \in Arguments
    /\ MainIdle
    /\ MergerIdle
    /\ FormatterIdle

Next ==
    \/ GetFfmpegPath \/ ExtractAudio \/ LoadAudio
    \/ FunasrAutoModel \/ FunasrGenerate \/ FunasrAutoModelCpu \/ FunasrGenerateCpu
    \/ MergerStep \/ FunasrProcessed
    \/ FunasrLoadAlign \/ FunasrAlign \/ FunasrLoadAlignCpu \/ FunasrAlignCpu
    \/ FunasrDiarizationPipeline \/ FunasrDiarize \/ FunasrAssign \/ FunasrWrite
    \/ WhisperxLoadModel \/ WhisperxTranscribe \/ WhisperxLoadModelCpu
    \/ WhisperxTranscribeCpu
    \/ WhisperxLoadAlign \/ WhisperxAlign \/ WhisperxLoadAlignCpu \/ WhisperxAlignCpu
    \/ WhisperxDiarizationPipeline \/ WhisperxDiarize \/ WhisperxDiarizeAgain
    \/ WhisperxAssign \/ WhisperxWrite
    \/ Output \/ HandleError \/ Finally

Spec == Init /\ [][Next]_vars

\* main() is one thread and every external call returns or raises: a step
\* that can be taken is taken.
FairSpec == Spec /\ WF_vars(Next)

(***************************************************************************)
(* The merger on its own: every argument drawn from the bounded sets.      *)
(***************************************************************************)

\* sentence_data of the n-th sentence.
SentenceData(n) ==
    { [text |-> SentenceText(n), start |-> s, end |-> e, spk |-> k] :
        s \in Times, e \in Times, k \in Speakers }

\* A sentence_data without its "end" and without "spk".
NoEndSentence == [text |-> "x", start |-> 0]

RECURSIVE SentenceInfos(_)
SentenceInfos(n) ==
    IF n = 0 THEN { <<>> }
    ELSE LET shorter == SentenceInfos(n - 1) IN
         shorter \cup
         { Append(s, d) : s \in { t \in shorter : Len(t) = n - 1 }, d \in SentenceData(n) }

\* One result item holding all sentences; and, for two sentences, the same
\* spread over several items among entries the extraction skips.
FunasrOutputs ==
    { <<>>, <<NOT_A_DICT>>, <<[is_dict |-> TRUE, text |-> "x"]>> }
    \cup { <<[is_dict |-> TRUE, sentence_info |-> s]>> : s \in SentenceInfos(MaxLen) }
    \cup { <<NOT_A_DICT,
             [is_dict |-> TRUE, sentence_info |-> <<s[1], NoEndSentence>>],
             [is_dict |-> TRUE, text |-> "x"],
             [is_dict |-> TRUE, sentence_info |-> <<[k \in {"text", "start", "end"} |-> s[2][k]]>>]>> :
            s \in { t \in SentenceInfos(2) : Len(t) = 2 /\ t[2].spk = NULL } }

MergerInit ==
    /\ funasr_output_list \in FunasrOutputs
    /\ diarization_enabled \in BOOLEAN
    /\ enable_segment_merging \in BOOLEAN
    /\ max_merge_gap_ms \in GapChoices
    /\ max_merged_segment_duration_ms \in DurationChoices
    /\ raw_segments_ms_spk = <<>>
    /\ processed_segments_ms_spk = <<>>
    /\ current_merged_segment = NULL
    /\ i = 0
    /\ mpc = "extract"
    /\ package = NULL
    /\ pc = "merger"
    /\ args = [language |-> NULL]
    /\ MainIdle
    /\ FormatterIdle

MergerNext == MergerStep

MergerSpec == MergerInit /\ [][MergerNext]_vars

(***************************************************************************)
(* milliseconds_to_srt_time_format on its own: its argument drawn from a   *)
(* bounded set of Python values.                                           *)
(***************************************************************************)

Milliseconds ==
    { PyInt(n) : n \in (-3..40) \cup {-3725008, 999, 1000, 1001, 59999, 60000, 61001,
                                      3599999, 3600000, 3725008, 35999999, 36000000,
                                      359999999, 360000000} }
    \cup { PyFloat(sign, whole, tenths) :
            sign \in {-1, 1}, whole \in {0, 1, 999, 1000, 3725008}, tenths \in {0, 5} }
    \cup { PyNan, PyInf(1), PyInf(-1), [kind |-> "none"], [kind |-> "str"] }

FormatInit ==
    /\ fpc = "called"
    /\ milliseconds \in Milliseconds
    /\ formatted = Returns("")
    /\ pc = "format"
    /\ args = [language |-> NULL]
    /\ MainIdle
    /\ MergerIdle

FormatNext == Format

FormatSpec == FormatInit /\ [][FormatNext]_vars

(***************************************************************************)
(* Definitions the merger's properties are stated with.                    *)
(***************************************************************************)

\* The function has returned a package built from at least one raw segment.
Returned == mpc = "returned" /\ raw_segments_ms_spk # <<>>

\* Every raw segment has end >= start.
RawWellFormed ==
    \A k \in 1..Len(raw_segments_ms_spk) :
        raw_segments_ms_spk[k].end >= raw_segments_ms_spk[k].start

\* Texts joined by exactly one space.
RECURSIVE JoinSpace(_)
JoinSpace(texts) ==
    IF texts = <<>> THEN ""
    ELSE IF Len(texts) = 1 THEN texts[1]
    ELSE texts[1] \o " " \o JoinSpace(Tail(texts))

TextsOf(segs) == [k \in 1..Len(segs) |-> segs[k].text]

\* A grouping of raw segments 1..n into contiguous runs is the set B of the
\* indices, other than 1, at which a run starts.
Groupings == SUBSET (2..Len(raw_segments_ms_spk))

RunStarts(B) == {1} \cup B

RunStart(B, k) ==
    CHOOSE s \in RunStarts(B) : Cardinality({t \in RunStarts(B) : t < s}) = k - 1

RunEnd(B, k) ==
    IF k = Cardinality(RunStarts(B)) THEN Len(raw_segments_ms_spk)
    ELSE RunStart(B, k + 1) - 1

\* The grouping B explains the texts of the emitted segments.
TextsMatch(B) ==
    /\ Len(processed_segments_ms_spk) = Cardinality(RunStarts(B))
    /\ \A k \in 1..Len(processed_segments_ms_spk) :
        processed_segments_ms_spk[k].text =
            JoinSpace(TextsOf(SubSeq(raw_segments_ms_spk, RunStart(B, k), RunEnd(B, k))))

(***************************************************************************)
(* C1.  With merging enabled the scan is seeded with the first raw segment *)
(* and, at every iteration, the next raw segment is merged into the        *)
(* accumulator (text extended by one space and the next text, end moved to *)
(* next.end, nothing emitted) if and only if the speakers are compatible   *)
(* (diarization disabled, or one of the two speakers null, or both equal), *)
(* 0 <= gap <= max_gap_ms and next.end - acc.start <= max_duration_ms;     *)
(* otherwise the accumulator is emitted and next becomes the accumulator.  *)
(* A gap above max_gap_ms never merges.                                    *)
(***************************************************************************)
C1_Condition(acc, next) ==
    /\ \/ diarization_enabled = FALSE
       \/ acc.spk = NULL
       \/ next.spk = NULL
       \/ acc.spk = next.spk
    /\ 0 <= next.start - acc.end
    /\ next.start - acc.end <= max_merge_gap_ms
    /\ next.end - acc.start <= max_merged_segment_duration_ms

C1_MergeIffCondition ==
    [][ /\ (mpc = "extract" /\ mpc' = "scan") =>
            /\ enable_segment_merging
            /\ current_merged_segment' = raw_segments_ms_spk'[1]
            /\ processed_segments_ms_spk' = <<>>
        /\ (mpc = "scan" /\ i <= Len(raw_segments_ms_spk)) =>
            LET acc == current_merged_segment
                next == raw_segments_ms_spk[i]
            IN  /\ C1_Condition(acc, next) =>
                    /\ processed_segments_ms_spk' = processed_segments_ms_spk
                    /\ current_merged_segment' =
                        [text |-> acc.text \o " " \o next.text,
                         start |-> acc.start, end |-> next.end, spk |-> acc.spk]
                /\ ~C1_Condition(acc, next) =>
                    /\ processed_segments_ms_spk' =
                        Append(processed_segments_ms_spk, acc)
                    /\ current_merged_segment' = next
                /\ next.start - acc.end > max_merge_gap_ms =>
                    Len(processed_segments_ms_spk') = Len(processed_segments_ms_spk) + 1
      ]_vars

\* Diarization on: the second segment was merged into the first (equal known
\* speakers) and the third was not, its gap being above max_gap_ms though
\* its speaker is compatible.
C1_Witness ==
    /\ mpc = "scan" /\ i = 4 /\ diarization_enabled
    /\ Len(processed_segments_ms_spk) = 1
    /\ raw_segments_ms_spk[1].spk = "A" /\ raw_segments_ms_spk[2].spk = "A"
    /\ processed_segments_ms_spk[1].end = raw_segments_ms_spk[2].end
    /\ raw_segments_ms_spk[3].spk = "A"
    /\ raw_segments_ms_spk[3].start - raw_segments_ms_spk[2].end > max_merge_gap_ms

(***************************************************************************)
(* C2.  With merge_enabled = false, whatever the other settings, a         *)
(* non-empty raw sequence is returned segment by segment: same length, and *)
(* the k-th output has the text, start, end and speaker of the k-th raw    *)
(* segment (in the returned package: the same text, the times in seconds,  *)
(* the speaker in the mapping).                                            *)
(***************************************************************************)
C2_NoMergeIsIdentity ==
    (Returned /\ ~enable_segment_merging) =>
        /\ Len(processed_segments_ms_spk) = Len(raw_segments_ms_spk)
        /\ Len(package.transcription_result.segments) = Len(raw_segments_ms_spk)
        /\ Len(package.speaker_mapping) = Len(raw_segments_ms_spk)
        /\ \A k \in 1..Len(raw_segments_ms_spk) :
            LET in == raw_segments_ms_spk[k]
                out == processed_segments_ms_spk[k]
                sub == package.transcription_result.segments[k]
            IN  /\ out.text = in.text /\ out.start = in.start
                /\ out.end = in.end /\ out.spk = in.spk
                /\ sub.text = in.text
                /\ sub.start.whole * 1000 + sub.start.thousandths = in.start
                /\ sub.end.whole * 1000 + sub.end.thousandths = in.end
                /\ package.speaker_mapping[k] = in.spk

\* Merging off, three raw segments that would have merged, all returned.
C2_Witness ==
    /\ Returned /\ ~enable_segment_merging
    /\ Len(raw_segments_ms_spk) = 3
    /\ \A k \in 1..3 : raw_segments_ms_spk[k].start = 0 /\ raw_segments_ms_spk[k].end = 0
    /\ max_merge_gap_ms = 1 /\ max_merged_segment_duration_ms = 1
    /\ Len(package.speaker_mapping) = 3

(***************************************************************************)
(* C3.  The merger never reorders: the emitted segments are, in order, the *)
(* contiguous runs of some grouping of the raw sequence, and the text of   *)
(* each is the texts of its run, in order, joined by exactly one space.    *)
(***************************************************************************)
C3_ContiguousRunsJoinedBySpace ==
    Returned =>
        \E B \in Groupings :
            /\ TextsMatch(B)
            /\ \A k \in 1..Len(processed_segments_ms_spk) :
                package.transcription_result.segments[k].text =
                    processed_segments_ms_spk[k].text

\* Three raw segments, the first two merged, the third on its own.
C3_Witness ==
    /\ Returned /\ enable_segment_merging
    /\ Len(raw_segments_ms_spk) = 3
    /\ TextsMatch({3})
    /\ processed_segments_ms_spk[1].text = "a b"

(***************************************************************************)
(* C4.  No emitted MergedSegment has end < start, whatever the raw input   *)
(* and the settings.                                                       *)
(***************************************************************************)
C4_Original_EndNeverBeforeStart ==
    \A k \in 1..Len(processed_segments_ms_spk) :
        processed_segments_ms_spk[k].end >= processed_segments_ms_spk[k].start

\* C4 as amended: when every raw segment has end >= start, no emitted
\* MergedSegment has end < start (neither in milliseconds nor in the seconds
\* of the returned package), whatever the settings.
C4_EndNeverBeforeStartIfRawWellFormed ==
    RawWellFormed =>
        /\ \A k \in 1..Len(processed_segments_ms_spk) :
            processed_segments_ms_spk[k].end >= processed_segments_ms_spk[k].start
        /\ mpc = "scan" => current_merged_segment.end >= current_merged_segment.start
        /\ Returned =>
            \A k \in 1..Len(package.transcription_result.segments) :
                LET sub == package.transcription_result.segments[k] IN
                    sub.end.whole * 1000 + sub.end.thousandths
                        >= sub.start.whole * 1000 + sub.start.thousandths

\* Well-formed raw segments, three of them merged into one emitted segment
\* that is longer than any of them.
C4_Witness ==
    /\ Returned /\ RawWellFormed /\ enable_segment_merging
    /\ Len(raw_segments_ms_spk) = 3
    /\ Len(processed_segments_ms_spk) = 1
    /\ processed_segments_ms_spk[1].end > processed_segments_ms_spk[1].start

(***************************************************************************)
(* C5.  In the grouping that explains the emitted texts, every emitted     *)
(* segment has the speaker of the first raw segment of its run (null       *)
(* included, even when later segments of the run have a known speaker),    *)
(* the speaker mapping has the same entry, start is the first segment's    *)
(* start and end the last segment's end.                                   *)
(***************************************************************************)
C5_SpeakerAndSpanFromRun ==
    Returned =>
        \A B \in Groupings :
            TextsMatch(B) =>
                \A k \in 1..Len(processed_segments_ms_spk) :
                    LET first == raw_segments_ms_spk[RunStart(B, k)]
                        last == raw_segments_ms_spk[RunEnd(B, k)]
                        out == processed_segments_ms_spk[k]
                    IN  /\ out.spk = first.spk
                        /\ package.speaker_mapping[k] = first.spk
                        /\ out.start = first.start
                        /\ out.end = last.end

\* A run of three whose first speaker is null and whose later speakers are
\* known: the emitted speaker is null.
C5_Witness ==
    /\ Returned /\ enable_segment_merging /\ diarization_enabled
    /\ Len(raw_segments_ms_spk) = 3
    /\ TextsMatch({})
    /\ raw_segments_ms_spk[1].spk = NULL
    /\ raw_segments_ms_spk[2].spk = "A"
    /\ raw_segments_ms_spk[3].end > raw_segments_ms_spk[2].end
    /\ package.speaker_mapping = <<NULL>>

(***************************************************************************)
(* C6.  Coverage: the open accumulator is emitted after the scan, so the   *)
(* emitted texts joined by one space are the raw texts joined by one space *)
(* (no raw segment dropped or duplicated), an input without raw segments   *)
(* gives an empty package, and a raw segment longer than max_duration_ms   *)
(* is emitted with its start, end and text unchanged.                      *)
(***************************************************************************)
C6_Coverage ==
    /\ (mpc = "returned" /\ raw_segments_ms_spk = <<>>) =>
            /\ package.transcription_result.segments = <<>>
            /\ package.speaker_mapping = <<>>
    /\ Returned =>
            /\ JoinSpace(TextsOf(processed_segments_ms_spk))
                    = JoinSpace(TextsOf(raw_segments_ms_spk))
            /\ JoinSpace(TextsOf(package.transcription_result.segments))
                    = JoinSpace(TextsOf(raw_segments_ms_spk))
            /\ processed_segments_ms_spk[Len(processed_segments_ms_spk)].end
                    = raw_segments_ms_spk[Len(raw_segments_ms_spk)].end

C6_LongSegmentUnchanged ==
    Returned =>
        \A j \in 1..Len(raw_segments_ms_spk) :
            raw_segments_ms_spk[j].end - raw_segments_ms_spk[j].start
                    > max_merged_segment_duration_ms =>
                \E k \in 1..Len(processed_segments_ms_spk) :
                    /\ processed_segments_ms_spk[k].start = raw_segments_ms_spk[j].start
                    /\ processed_segments_ms_spk[k].end = raw_segments_ms_spk[j].end
                    /\ processed_segments_ms_spk[k].text = raw_segments_ms_spk[j].text

C6_Original_CoverageAndLongSegment == C6_Coverage /\ C6_LongSegmentUnchanged

\* C6 as amended: coverage as above, whatever the raw input; and when every
\* raw segment has end >= start, a raw segment longer than max_duration_ms
\* is emitted with its start, end and text unchanged.
C6_CoverageAndLongSegmentIfRawWellFormed ==
    C6_Coverage /\ (RawWellFormed => C6_LongSegmentUnchanged)

\* Well-formed raw segments: the first two merged, the third, longer than
\* max_duration_ms and within the gap limit, emitted on its own as the last
\* accumulator.
C6_Witness ==
    /\ Returned /\ RawWellFormed /\ enable_segment_merging /\ ~diarization_enabled
    /\ Len(raw_segments_ms_spk) = 3
    /\ Len(processed_segments_ms_spk) = 2
    /\ raw_segments_ms_spk[3].end - raw_segments_ms_spk[3].start
            > max_merged_segment_duration_ms
    /\ raw_segments_ms_spk[3].start - raw_segments_ms_spk[2].end \in 0..max_merge_gap_ms
    /\ processed_segments_ms_spk[2].start = raw_segments_ms_spk[3].start
    /\ processed_segments_ms_spk[2].end = raw_segments_ms_spk[3].end

(***************************************************************************)
(* Definitions the properties of main() are stated with.                   *)
(***************************************************************************)

Failed(c) == c.err # NoError

TranscriptionCalls == {"generate", "transcribe"}

AlignmentCalls == {"load_align_model", "align"}

LaterStageCalls ==
    AlignmentCalls \cup {"DiarizationPipeline", "diarize", "assign_word_speakers",
                         "write_result", "open"}

\* The construction of the model an operation runs on.
ConstructorOf(name) ==
    IF name = "generate" THEN "AutoModel"
    ELSE IF name = "transcribe" THEN "load_model"
    ELSE "load_align_model"

\* Call k raised an error signalling exhaustion on the accelerator.
ExhaustedOnAccelerator(k) ==
    /\ Failed(calls[k])
    /\ SignalsOom(calls[k].err)
    /\ calls[k].device = "cuda"

(***************************************************************************)
(* C7.  When the primary operation of the transcription or the alignment   *)
(* stage raises "out of memory" (in any case) on the accelerator, the next *)
(* call is the construction of the model on the CPU, the operation is      *)
(* attempted on the CPU at most once, and the model of the failed attempt  *)
(* is released before the CPU model is constructed: no model on the        *)
(* accelerator and model of the same stage on the CPU are ever in memory   *)
(* together.                                                               *)
(***************************************************************************)
C7_FallbackInvokedOnce ==
    \A k \in 1..Len(calls) :
        (calls[k].call \in TranscriptionCalls \cup AlignmentCalls
                /\ ExhaustedOnAccelerator(k)) =>
            /\ k = Len(calls) =>
                    pc \in {"f_auto_model_cpu", "w_load_model_cpu",
                            "f_load_align_cpu", "w_load_align_cpu"}
            /\ k < Len(calls) =>
                    /\ calls[k + 1].device = "cpu"
                    /\ calls[k + 1].call = ConstructorOf(calls[k].call)
            /\ Cardinality({j \in (k + 1)..Len(calls) :
                    calls[j].device = "cpu" /\ calls[j].call = calls[k].call}) <= 1

C7_NeverBothLive ==
    \A a \in heap : \A b \in heap :
        a.kind = b.kind => a.device = b.device

C7_FallbackOnceAndNeverBothLive == C7_FallbackInvokedOnce /\ C7_NeverBothLive

(***************************************************************************)
(* C8.  At every point of a run at most one heavyweight model              *)
(* (transcription, alignment or diarization, on either device) is in       *)
(* memory.                                                                 *)
(***************************************************************************)
C8_AtMostOneModelResident == Cardinality(heap) <= 1

(***************************************************************************)
(* C9.  Once the transcription call (generate or transcribe, on either     *)
(* device) has raised an error that does not signal exhaustion, the run    *)
(* only goes through the error handler and the finally clause: alignment,  *)
(* diarization, the writer and the output file are never called, no SRT    *)
(* text is written to the file or to stdout, the payload on stderr has     *)
(* error_code ASR_PROCESSING_FAILED when the message matches none of the   *)
(* known patterns, and the process exits with status 1.                    *)
(***************************************************************************)
TranscriptionFailedHard ==
    \E k \in 1..Len(calls) :
        /\ calls[k].call \in TranscriptionCalls
        /\ Failed(calls[k])
        /\ ~SignalsOom(calls[k].err)

MatchesKnownPattern(msg) ==
    \/ Contains(msg, "ffmpeg executable not found")
    \/ Contains(msg, "ffmpeg audio extraction failed")
    \/ Contains(msg, args.video_file_path)
    \/ Contains(Lower(msg), "out of memory")

C9_TranscriptionErrorIsFatal ==
    TranscriptionFailedHard =>
        /\ pc \in {"handle_error", "finally_exit", "exited"}
        /\ exit_code \in {-1, 1}
        /\ \A k \in 1..Len(calls) : calls[k].call \notin LaterStageCalls
        /\ out_file = NoFile
        /\ \A k \in 1..Len(stdout) : stdout[k].type # "srt"
        /\ pc \in {"finally_exit", "exited"} =>
            /\ Len(stderr) = 1
            /\ ~MatchesKnownPattern(stderr[1].details) =>
                    stderr[1].error_code = "ASR_PROCESSING_FAILED"
            /\ stdout[Len(stdout) - (IF pc = "exited" /\ temp_file THEN 1 ELSE 0)].type
                    = "error"
        /\ pc = "exited" => exit_code = 1

\* The FunASR path: generate raised "engine failed" and the process has
\* exited with status 1 and the generic code.
C9_Witness ==
    /\ pc = "exited" /\ exit_code = 1
    /\ TranscriptionFailedHard
    /\ UsesFunasr
    /\ stderr[1].error_code = "ASR_PROCESSING_FAILED"
    /\ ~MatchesKnownPattern(stderr[1].details)

(***************************************************************************)
(* C10.  When the first error of the alignment stage (load_align_model or  *)
(* align) does not signal exhaustion, the run goes on to the writer, which *)
(* is given the segments as they were before alignment (the merged         *)
(* segments on the FunASR path, the transcription's segments on the        *)
(* WhisperX path); unless the writer or the output file then fails, the    *)
(* SRT text of these segments is written and the process exits with        *)
(* status 0.                                                               *)
(***************************************************************************)
AlignmentFailedSoft ==
    \E k \in 1..Len(calls) :
        /\ calls[k].call \in AlignmentCalls
        /\ Failed(calls[k])
        /\ ~SignalsOom(calls[k].err)
        /\ \A j \in 1..(k - 1) : calls[j].call \in AlignmentCalls => ~Failed(calls[j])

PreAlignmentSegments ==
    IF UsesFunasr THEN package.transcription_result.segments
    ELSE frame.result.segments

WrittenSrt ==
    [rendered |-> TRUE, segments |-> PreAlignmentSegments,
     language |-> frame.detected_language]

OutputFailed ==
    \E k \in 1..Len(calls) : calls[k].call \in {"write_result", "open"} /\ Failed(calls[k])

C10_AlignmentErrorIsSoft ==
    AlignmentFailedSoft =>
        /\ \A k \in 1..Len(calls) :
                calls[k].call = "write_result" =>
                    calls[k].arg.segments = PreAlignmentSegments
        /\ \A k \in 1..Len(calls) :
                calls[k].call \in {"DiarizationPipeline", "diarize", "assign_word_speakers"}
                    => FALSE
        /\ ~OutputFailed =>
                /\ pc \in {"f_write", "w_write", "output", "finally", "exited"}
                /\ pc \in {"finally", "exited"} =>
                        IF HasOutputPath
                        THEN out_file = [written |-> TRUE, content |-> WrittenSrt]
                        ELSE \E k \in 1..Len(stdout) :
                                stdout[k] = [type |-> "srt", text |-> WrittenSrt]
                /\ pc = "exited" => exit_code = 0

\* The FunASR path: the two sentences were merged, align raised "engine
\* failed", and the process has exited with status 0 after writing the
\* merged segment to the file.
C10_Witness ==
    /\ pc = "exited" /\ exit_code = 0
    /\ AlignmentFailedSoft
    /\ UsesFunasr
    /\ out_file = [written |-> TRUE, content |-> WrittenSrt]
    /\ Len(out_file.content.segments) = 1
    /\ out_file.content.segments[1].text = "Hi there"

(***************************************************************************)
(* Further definitions the properties of main() are stated with.           *)
(***************************************************************************)

DiarizationCalls == {"DiarizationPipeline", "diarize", "assign_word_speakers"}

SuccessfulRun == pc = "exited" /\ exit_code = 0

FailedRun == pc = "exited" /\ exit_code = 1

\* main() is past the diarization stage and has not failed.
AtWriterOrAfter == pc \in {"f_write", "w_write", "output", "finally", "exited"}

\* An alignment call raised an error that started no retry: the handler
\* took the branch of line 360 or 497.
AlignmentStageSoftFailed ==
    \E k \in 1..Len(calls) :
        /\ calls[k].call \in AlignmentCalls
        /\ Failed(calls[k])
        /\ ~ExhaustedOnAccelerator(k)
        /\ \A j \in 1..(k - 1) : calls[j].call \in AlignmentCalls => ~Failed(calls[j])

EventsOf(stream) == {stream[k] : k \in 1..Len(stream)}

CompletionEvents ==
    {e \in EventsOf(stdout) \cup EventsOf(stderr) :
        "type" \in DOMAIN e /\ e.type = "complete"}

CarriesAlignmentFlag(e) ==
    /\ "alignment" \in DOMAIN e
    /\ e.alignment = IF AlignmentStageSoftFailed THEN "failed" ELSE "ok"

\* The completion event of a run that wrote the SRT to a file has the flag.
CompletionCarriesFlagInFileMode ==
    (SuccessfulRun /\ HasOutputPath) =>
        /\ CompletionEvents # {}
        /\ \A e \in CompletionEvents : CarriesAlignmentFlag(e)

(***************************************************************************)
(* C11.  Every successful run emits a completion event, and the event has  *)
(* alignment "failed" when the alignment stage soft-failed in the run and  *)
(* "ok" otherwise, whether the SRT went to a file or to stdout.            *)
(***************************************************************************)
C11_CompletionCarriesAlignmentFlag ==
    SuccessfulRun =>
        /\ CompletionEvents # {}
        /\ \A e \in CompletionEvents : CarriesAlignmentFlag(e)

(***************************************************************************)
(* C12.  When an alignment call raised exhaustion on the accelerator and   *)
(* the retry on the CPU (load_align_model or align) failed as well, the    *)
(* run goes on to the writer with the segments as they were before         *)
(* alignment and, unless the writer or the output file fails, exits with   *)
(* status 0.                                                               *)
(***************************************************************************)
AlignmentRetryFailed ==
    \E k \in 1..Len(calls) :
        /\ calls[k].call \in AlignmentCalls
        /\ calls[k].device = "cpu"
        /\ Failed(calls[k])
        /\ \E j \in 1..(k - 1) :
                calls[j].call \in AlignmentCalls /\ ExhaustedOnAccelerator(j)

C12_AlignmentRetryFailureIsSoft ==
    AlignmentRetryFailed =>
        /\ \A k \in 1..Len(calls) :
                calls[k].call = "write_result" =>
                    calls[k].arg.segments = PreAlignmentSegments
        /\ ~OutputFailed =>
                /\ AtWriterOrAfter
                /\ pc = "exited" => exit_code = 0

(***************************************************************************)
(* C13.  When a call of the diarization stage (DiarizationPipeline, the    *)
(* diarization itself, assign_word_speakers) fails, the failure is         *)
(* swallowed: the writer is given the aligned result, without speaker      *)
(* labels; no diarization model stays in memory; and, unless the writer or *)
(* the output file fails, the process exits with status 0.                 *)
(***************************************************************************)
DiarizationFailed ==
    \E k \in 1..Len(calls) : calls[k].call \in DiarizationCalls /\ Failed(calls[k])

HasSpeakerLabels(r) ==
    \E k \in 1..Len(r.segments) : "speaker" \in DOMAIN r.segments[k]

C13_FailureSwallowed ==
    DiarizationFailed =>
        /\ \A k \in 1..Len(calls) :
                calls[k].call = "write_result" =>
                    /\ calls[k].arg.segments = frame.aligned.segments
                    /\ ~HasSpeakerLabels(calls[k].arg)
        /\ ~OutputFailed =>
                /\ AtWriterOrAfter
                /\ pc = "exited" => exit_code = 0

C13_DiarizationModelReleased ==
    DiarizationFailed => \A o \in heap : o.kind # "diarize"

C13_DiarizationFailureSwallowed == C13_FailureSwallowed /\ C13_DiarizationModelReleased

(***************************************************************************)
(* C14.  When DiarizationPipeline or the diarization call raises           *)
(* exhaustion on the accelerator, the stage is not given up at once: the   *)
(* next call is the construction of the diarization model on the CPU, and  *)
(* diarization is attempted on the CPU at most once.                       *)
(***************************************************************************)
C14_DiarizationRetriedOnCpu ==
    \A k \in 1..Len(calls) :
        (calls[k].call \in {"DiarizationPipeline", "diarize"}
                /\ ExhaustedOnAccelerator(k)) =>
            /\ k = Len(calls) => ~AtWriterOrAfter
            /\ k < Len(calls) =>
                    /\ calls[k + 1].call = "DiarizationPipeline"
                    /\ calls[k + 1].device = "cpu"
            /\ Cardinality({j \in (k + 1)..Len(calls) :
                    calls[j].device = "cpu" /\ calls[j].call = "diarize"}) <= 1

(***************************************************************************)
(* C15.  The diarization stage is entered only when diarization was        *)
(* requested and hf_token supplied.  When either is missing no diarization *)
(* call is made, a successful alignment is followed directly by the        *)
(* writer, the result written has no speaker labels, no error event is     *)
(* printed for the skip, and the run ends with status 0 unless another     *)
(* stage fails.                                                            *)
(***************************************************************************)
DiarizationEntered ==
    \/ pc \in {"f_diar_pipeline", "f_diarize", "f_assign",
               "w_diar_pipeline", "w_diarize", "w_diarize_again", "w_assign"}
    \/ \E k \in 1..Len(calls) : calls[k].call \in DiarizationCalls

AnyCallFailed == \E k \in 1..Len(calls) : Failed(calls[k]) /\ calls[k].call # "os.remove"

ErrorEvents(stream) ==
    {k \in 1..Len(stream) : "type" \in DOMAIN stream[k] /\ stream[k].type = "error"}

C15_DiarizationOnlyWithRequestAndToken ==
    /\ DiarizationEntered =>
            /\ args.enable_diarization
            /\ args.hf_token # NULL /\ args.hf_token # ""
    /\ ~(args.enable_diarization /\ args.hf_token # NULL /\ args.hf_token # "") =>
            /\ \A k \in 1..Len(calls) :
                    (calls[k].call = "align" /\ ~Failed(calls[k])) =>
                        /\ k = Len(calls) => pc \in {"f_write", "w_write"}
                        /\ k < Len(calls) => calls[k + 1].call = "write_result"
            /\ \A k \in 1..Len(calls) :
                    calls[k].call = "write_result" => ~HasSpeakerLabels(calls[k].arg)
            /\ ~AnyCallFailed =>
                    /\ ErrorEvents(stdout) = {}
                    /\ pc = "exited" => exit_code = 0

\* Diarization requested without a token: the skip is reported by a warning,
\* the aligned result is written without labels, the process exits 0.
C15_Witness ==
    /\ SuccessfulRun
    /\ args.enable_diarization /\ args.hf_token = NULL
    /\ \E k \in 1..Len(stdout) : stdout[k] = Ev("warning", 80)
    /\ \E k \in 1..Len(calls) :
            /\ calls[k].call = "write_result"
            /\ calls[k].arg.segments # <<>>
            /\ "words" \in DOMAIN calls[k].arg.segments[1]
            /\ ~HasSpeakerLabels(calls[k].arg)

(***************************************************************************)
(* C16.  The calls of a run are made in the order of the stages:           *)
(* extraction (ffmpeg, audio), transcription, alignment, diarization,      *)
(* writing (writer, output file), and last the removal of the temporary    *)
(* file; no call of a stage follows a call of a later stage.  Once the run *)
(* is done or has failed (error handler or finally clause reached) the     *)
(* only call still made is that removal, and after exit nothing happens.   *)
(***************************************************************************)
StageRank(name) ==
    IF name \in {"get_ffmpeg_path", "extract_audio", "load_audio"} THEN 1
    ELSE IF name \in {"AutoModel", "load_model"} \cup TranscriptionCalls THEN 2
    ELSE IF name \in AlignmentCalls THEN 3
    ELSE IF name \in DiarizationCalls THEN 4
    ELSE IF name \in {"write_result", "open"} THEN 5
    ELSE 6

C16_LogInOrder ==
    \A j \in 1..Len(calls) : \A k \in j..Len(calls) :
        StageRank(calls[j].call) <= StageRank(calls[k].call)

C16_NoStageAfterTerminal ==
    /\ pc \in {"handle_error", "finally_exit", "finally"} =>
            \/ calls' = calls
            \/ /\ Len(calls') = Len(calls) + 1
               /\ calls'[Len(calls')].call = "os.remove"
    /\ pc = "exited" => UNCHANGED vars

C16_StagesInFixedOrder == []C16_LogInOrder /\ [][C16_NoStageAfterTerminal]_vars

\* A successful run that went through every stage, diarization included.
C16_Witness ==
    /\ SuccessfulRun
    /\ \A r \in 1..6 : \E k \in 1..Len(calls) : StageRank(calls[k].call) = r
    /\ \A k \in 1..Len(calls) : calls[k].call = "os.remove" \/ ~Failed(calls[k])

(***************************************************************************)
(* C17.  Every run that does not fail goes through the writer before it is *)
(* done, on both engine paths, also when the transcription has no          *)
(* segments.                                                               *)
(***************************************************************************)
WriterSucceeded ==
    \E k \in 1..Len(calls) : calls[k].call = "write_result" /\ ~Failed(calls[k])

C17_Original_WriterInEveryNonFailingRun == SuccessfulRun => WriterSucceeded

\* What was emitted as the SRT: the file's content or the text on stdout.
EmittedSrt ==
    IF HasOutputPath THEN out_file.content
    ELSE (CHOOSE e \in EventsOf(stdout) : e.type = "srt").text

\* C17 as amended: every run that does not fail goes through the writer and
\* emits what the writer rendered, except on the FunASR path when the
\* merger returned no segments: then the writer is not called and the SRT
\* emitted is the empty string.
C17_WriterUnlessFunasrHasNoSegments ==
    SuccessfulRun =>
        IF UsesFunasr /\ package.transcription_result.segments = <<>>
        THEN /\ \A k \in 1..Len(calls) : calls[k].call # "write_result"
             /\ EmittedSrt = EmptySrt
        ELSE /\ WriterSucceeded
             /\ \E k \in 1..Len(calls) :
                    /\ calls[k].call = "write_result"
                    /\ EmittedSrt = Render(calls[k].arg)

\* The WhisperX path with a transcription without segments: the writer was
\* called all the same.
C17_Witness ==
    /\ SuccessfulRun
    /\ ~UsesFunasr
    /\ frame.result.segments = <<>>
    /\ WriterSucceeded
    /\ EmittedSrt.rendered

(***************************************************************************)
(* C18.  Whenever the writer is called, the result it is given has a       *)
(* non-empty language: "zh" on the FunASR path, the detected or declared   *)
(* language on the WhisperX path, backfilled when the result chosen        *)
(* (diarized, aligned or unaligned) has none.                              *)
(***************************************************************************)
NonEmptyLanguage(r) == "language" \in DOMAIN r /\ r.language \notin {NULL, ""}

C18_WriterGetsLanguage ==
    /\ pc \in {"f_write", "w_write"} =>
            /\ NonEmptyLanguage(frame.result_to_use_for_srt)
            /\ frame.result_to_use_for_srt.language =
                    IF UsesFunasr THEN "zh" ELSE frame.detected_language
    /\ \A k \in 1..Len(calls) :
            calls[k].call = "write_result" => NonEmptyLanguage(calls[k].arg)

\* No language declared, "zh" detected by WhisperX, the aligned result
\* (which has no language of its own) is about to be written with it.
C18_Witness ==
    /\ pc = "w_write"
    /\ args.language = NULL
    /\ "word_segments" \in DOMAIN frame.result_to_use_for_srt
    /\ ~("language" \in DOMAIN frame.aligned)
    /\ frame.result_to_use_for_srt.language = "zh"

(***************************************************************************)
(* C19.  The progress values printed in a run are integers in 0..100 and   *)
(* never decrease in the order of emission, on every path; the completion  *)
(* event written to stderr comes last and is not below any of them.        *)
(***************************************************************************)
ProgressEvents(stream) == {k \in 1..Len(stream) : "progress" \in DOMAIN stream[k]}

C19_ProgressNeverDecreases ==
    /\ \A k \in ProgressEvents(stdout) :
            /\ stdout[k].progress \in 0..100
            /\ \A j \in ProgressEvents(stdout) :
                    j < k => stdout[j].progress <= stdout[k].progress
    /\ \A k \in ProgressEvents(stderr) :
            /\ stderr[k].progress \in 0..100
            /\ \A j \in ProgressEvents(stdout) : stdout[j].progress <= stderr[k].progress

\* The FunASR path with the transcription retried on the CPU and a failed
\* diarization: 45 and the warning with 83 were printed, the run is done.
C19_Witness ==
    /\ SuccessfulRun
    /\ \E k \in 1..Len(stdout) : stdout[k] = Ev("info", 45)
    /\ \E k \in 1..Len(stdout) : stdout[k] = Ev("warning", 83)
    /\ \E k \in 1..Len(stdout) : "progress" \in DOMAIN stdout[k] /\ stdout[k].progress = 100

(***************************************************************************)
(* C20.  Every run emits exactly one terminal event: a run that is done    *)
(* emits exactly one complete event and no error event; a run that failed  *)
(* emits exactly one error event on stdout, exactly one error payload on   *)
(* stderr and no complete event, whatever the stage and the engine path.   *)
(***************************************************************************)
CompleteEvents(stream) ==
    {k \in 1..Len(stream) : "type" \in DOMAIN stream[k] /\ stream[k].type = "complete"}

ErrorPayloads(stream) == {k \in 1..Len(stream) : "error_code" \in DOMAIN stream[k]}

\* One completion event in a run that is done; one payload on stderr and one
\* classified error event on stdout in a run that failed.
OneCompletionOrOneClassifiedError ==
    /\ SuccessfulRun =>
            /\ Cardinality(CompleteEvents(stdout)) + Cardinality(CompleteEvents(stderr)) = 1
            /\ ErrorEvents(stdout) = {}
            /\ ErrorPayloads(stderr) = {}
    /\ FailedRun =>
            /\ Cardinality(ErrorPayloads(stderr)) = 1
            /\ Cardinality(ErrorPayloads(stdout)) = 1
            /\ CompleteEvents(stdout) = {} /\ CompleteEvents(stderr) = {}

C20_ExactlyOneTerminalEvent ==
    /\ OneCompletionOrOneClassifiedError
    /\ FailedRun => Cardinality(ErrorEvents(stdout)) = 1

\* A failed call whose error main() does not let reach the handler of line
\* 577: the removal of the temporary file, the diarization stage, the first
\* failure of the alignment stage (a CPU retry or a soft failure follows),
\* and a transcription exhausted on the accelerator (a CPU retry follows).
Swallowed(k) ==
    \/ calls[k].call = "os.remove"
    \/ calls[k].call \in DiarizationCalls
    \/ /\ calls[k].call \in AlignmentCalls
       /\ \A j \in 1..(k - 1) : calls[j].call \in AlignmentCalls => ~Failed(calls[j])
    \/ calls[k].call \in TranscriptionCalls /\ ExhaustedOnAccelerator(k)

HardFailed == \E k \in 1..Len(calls) : Failed(calls[k]) /\ ~Swallowed(k)

(***************************************************************************)
(* C21.  The exit status is 1 exactly when the run hard-failed and 0       *)
(* otherwise: a run that has emitted a completion event has emitted no     *)
(* error event or payload and does not exit with 1, a run that hard-failed *)
(* emits no completion event and does not exit with 0, and a run whose     *)
(* only failures are soft ones (alignment or diarization skipped, the      *)
(* temporary file not removed) exits with 0.                               *)
(***************************************************************************)
C21_ExitCodeMatchesOutcome ==
    /\ pc = "exited" =>
            /\ exit_code \in {0, 1}
            /\ exit_code = 1 <=> HardFailed
            /\ exit_code = 0 <=> CompletionEvents # {}
            /\ exit_code = 1 <=> ErrorPayloads(stderr) # {}
    /\ CompletionEvents # {} =>
            /\ exit_code \in {-1, 0}
            /\ ErrorEvents(stdout) = {}
            /\ ErrorPayloads(stderr) = {}
            /\ ~HardFailed
    /\ HardFailed =>
            /\ exit_code \in {-1, 1}
            /\ CompletionEvents = {}

\* A run that is done although its alignment failed softly and the removal
\* of its temporary file failed.
C21_Witness ==
    /\ SuccessfulRun
    /\ AlignmentStageSoftFailed
    /\ Failed(calls[Len(calls)])
    /\ CompletionEvents # {}

(***************************************************************************)
(* C22.  When the process has exited, the temporary audio file the run     *)
(* created is deleted or its deletion was attempted as the last call; a    *)
(* failed deletion leaves the file, prints a warning as the last line of   *)
(* stdout and changes neither the outcome nor the exit status.             *)
(***************************************************************************)
C22_TemporaryFileRemovedAtExit ==
    pc = "exited" =>
        /\ frame.temp_audio_file_path = NULL => ~temp_file
        /\ frame.temp_audio_file_path # NULL =>
                /\ calls # <<>>
                /\ calls[Len(calls)].call = "os.remove"
                /\ \A k \in 1..(Len(calls) - 1) : calls[k].call # "os.remove"
                /\ temp_file <=> Failed(calls[Len(calls)])
                /\ temp_file => stdout # <<>> /\ stdout[Len(stdout)] = Msg("warning")
        /\ exit_code = 1 <=> ErrorPayloads(stderr) # {}
        /\ exit_code = 0 <=> CompletionEvents # {}

\* A run that failed and whose temporary file could not be removed.
C22_Witness ==
    /\ FailedRun
    /\ temp_file
    /\ calls[Len(calls)].call = "os.remove"
    /\ Failed(calls[Len(calls)])

\* The declared language is given and starts with "zh" in any case.
DeclaredChinese ==
    /\ args.language # NULL
    /\ Len(args.language) >= 2
    /\ Lower(SubSeq(args.language, 1, 2)) = "zh"

FunasrEngineCalls == {"AutoModel", "generate"}

WhisperxEngineCalls == {"load_model", "transcribe"}

(***************************************************************************)
(* C23.  The engine is chosen from the declared language alone: FunASR is  *)
(* called only in runs whose declared language starts with "zh" in any     *)
(* case, WhisperX only in the other runs (auto-detection included), so no  *)
(* run calls both, whatever language is detected; the segment merger runs  *)
(* only in the FunASR runs.                                                *)
(***************************************************************************)
C23_EngineFromDeclaredLanguage ==
    /\ \A k \in 1..Len(calls) :
            /\ calls[k].call \in FunasrEngineCalls => DeclaredChinese
            /\ calls[k].call \in WhisperxEngineCalls => ~DeclaredChinese
    /\ ~(\E j, k \in 1..Len(calls) :
            /\ calls[j].call \in FunasrEngineCalls
            /\ calls[k].call \in WhisperxEngineCalls)
    /\ (mpc # "idle" \/ package # NULL \/ raw_segments_ms_spk # <<>>) => DeclaredChinese
    /\ (\E j \in 1..Len(calls) : calls[j].call = "load_audio" /\ ~Failed(calls[j]))
       /\ pc = "exited" =>
            \E k \in 1..Len(calls) :
                calls[k].call = IF DeclaredChinese THEN "AutoModel" ELSE "load_model"

\* A run without a declared language in which WhisperX detected Chinese and
\* which ended without the merger.
C23_Witness ==
    /\ SuccessfulRun
    /\ args.language = NULL
    /\ frame.detected_language = "zh"
    /\ \E k \in 1..Len(calls) : calls[k].call = "transcribe" /\ ~Failed(calls[k])
    /\ mpc = "idle"

(***************************************************************************)
(* C24.  When no output path is given, every line written to stdout is the *)
(* subtitle text: no progress, status, warning, error or completion line   *)
(* is written to stdout.                                                   *)
(***************************************************************************)
C24_StdoutCarriesOnlySubtitles ==
    ~HasOutputPath =>
        \A k \in 1..Len(stdout) : "type" \in DOMAIN stdout[k] /\ stdout[k].type = "srt"

\* A call of get_ffmpeg_path or of extract_audio_from_video raised.
ExtractionStageFailed ==
    \E k \in 1..Len(calls) :
        calls[k].call \in {"get_ffmpeg_path", "extract_audio"} /\ Failed(calls[k])

(***************************************************************************)
(* C25.  When ffmpeg is not found or the extraction fails, the run goes to *)
(* the error handler and exits with 1, and no model has been constructed   *)
(* or called: the log holds no call after the failed one except the        *)
(* removal of the temporary file, and no model is resident.                *)
(***************************************************************************)
C25_ExtractionFailureAbortsBeforeModels ==
    ExtractionStageFailed =>
        /\ pc \in {"handle_error", "finally_exit", "exited"}
        /\ exit_code \in {-1, 1}
        /\ pc = "exited" => exit_code = 1 /\ ErrorPayloads(stderr) # {}
        /\ heap = {}
        /\ \A k \in 1..Len(calls) :
                calls[k].call \in {"get_ffmpeg_path", "extract_audio", "os.remove"}
        /\ \A k \in 1..Len(calls) :
                Failed(calls[k]) /\ calls[k].call # "os.remove" =>
                    \A j \in (k + 1)..Len(calls) : calls[j].call = "os.remove"
        /\ CompletionEvents = {}

\* A run that failed because ffmpeg could not extract the audio.
C25_Witness ==
    /\ FailedRun
    /\ \E k \in 1..Len(calls) :
            calls[k].call = "extract_audio" /\ calls[k].err = ExtractionFailed
    /\ heap = {}

\* HH:MM:SS,mmm of a natural number of milliseconds, each field computed
\* from the number directly.
SrtTimeOf(n) ==
    FormatD(n \div 3600000, 2) \o ":" \o FormatD((n \div 60000) % 60, 2) \o ":"
        \o FormatD((n \div 1000) % 60, 2) \o "," \o FormatD(n % 1000, 3)

\* What the function owes for the argument it was called with: the zero
\* timestamp for a negative or non-numeric argument, the timestamp of the
\* number for a non-negative integer.
FormattedAsSpecified ==
    /\ ~formatted.raised
    /\ (~IsIntOrFloat(milliseconds) \/ LessThanZero(milliseconds)) =>
            formatted.value = "00:00:00,000"
    /\ (milliseconds.kind = "int" /\ milliseconds.value >= 0) =>
            formatted.value = SrtTimeOf(milliseconds.value)
    /\ milliseconds = PyInt(3725008) => formatted.value = "01:02:05,008"

\* The function behaves as specified for every argument but the floats nan
\* and +inf.
FormattedUnlessNanOrInf ==
    (fpc = "returned" /\ milliseconds \notin {PyNan, PyInf(1)}) => FormattedAsSpecified

(***************************************************************************)
(* C26.  milliseconds_to_srt_time_format never raises; it returns          *)
(* "00:00:00,000" for every negative or non-numeric argument, and for a    *)
(* non-negative integer the timestamp HH:MM:SS,mmm with HH = ms div        *)
(* 3600000, MM = (ms div 60000) mod 60, SS = (ms div 1000) mod 60 and mmm  *)
(* = ms mod 1000, padded with zeros to 2, 2, 2 and 3 digits.               *)
(***************************************************************************)
C26_FormatterIsTotal == fpc = "returned" => FormattedAsSpecified

\* The positions of the calls of an operation in the log.
AttemptsOf(names) == {k \in 1..Len(calls) : calls[k].call \in names}

(***************************************************************************)
(* C27.  The transcription is attempted at most twice in a run.  A second  *)
(* attempt exists only on the CPU and only after a first attempt that      *)
(* raised an out-of-memory message on the accelerator; such a first        *)
(* attempt is followed by the construction of the model on the CPU.  A     *)
(* failed attempt of any other kind (another message, or the CPU as the    *)
(* selected device, or the CPU retry itself) goes to the error handler     *)
(* with no further call but the removal of the temporary file.             *)
(***************************************************************************)
C27_TranscriptionRetryOnlyOnAcceleratorOom ==
    LET attempts == AttemptsOf(TranscriptionCalls) IN
    /\ Cardinality(attempts) <= 2
    /\ \A j, k \in attempts :
            j < k =>
                /\ ExhaustedOnAccelerator(j)
                /\ frame.device = "cuda"
                /\ calls[j].device = "cuda"
                /\ calls[k].device = "cpu"
    /\ \A k \in attempts :
            ExhaustedOnAccelerator(k) =>
                /\ k = Len(calls) => pc \in {"f_auto_model_cpu", "w_load_model_cpu"}
                /\ k < Len(calls) =>
                        /\ calls[k + 1].call \in {"AutoModel", "load_model"}
                        /\ calls[k + 1].device = "cpu"
    /\ \A k \in attempts :
            Failed(calls[k]) /\ ~ExhaustedOnAccelerator(k) =>
                /\ pc \in {"handle_error", "finally_exit", "exited"}
                /\ exit_code \in {-1, 1}
                /\ \A j \in (k + 1)..Len(calls) : calls[j].call = "os.remove"

\* A run that failed because the CPU retry of the transcription raised an
\* out-of-memory message too.
C27_Witness ==
    /\ FailedRun
    /\ \E j, k \in AttemptsOf(TranscriptionCalls) :
            /\ j < k
            /\ ExhaustedOnAccelerator(j)
            /\ calls[k].device = "cpu"
            /\ Failed(calls[k])
            /\ SignalsOom(calls[k].err)

KnownErrorCodes ==
    {"FFMPEG_NOT_FOUND", "AUDIO_EXTRACTION_FAILED", "INPUT_VIDEO_NOT_FOUND",
     "OUT_OF_MEMORY", "ASR_PROCESSING_FAILED", "PROCESSING_FAILED"}

\* Every error code written to stderr or stdout is one of the six.
ErrorCodesAreKnown ==
    /\ \A k \in ErrorPayloads(stderr) : stderr[k].error_code \in KnownErrorCodes
    /\ \A k \in ErrorPayloads(stdout) : stdout[k].error_code \in KnownErrorCodes

(***************************************************************************)
(* C28.  When get_ffmpeg_path raised, the payload on stderr and the error  *)
(* event on stdout carry the error code FFMPEG_NOT_FOUND; and every error  *)
(* code written is one of FFMPEG_NOT_FOUND, AUDIO_EXTRACTION_FAILED,       *)
(* INPUT_VIDEO_NOT_FOUND, OUT_OF_MEMORY, ASR_PROCESSING_FAILED and         *)
(* PROCESSING_FAILED.                                                      *)
(***************************************************************************)
C28_MissingFfmpegIsClassified ==
    /\ ErrorCodesAreKnown
    /\ (\E k \in 1..Len(calls) : calls[k].call = "get_ffmpeg_path" /\ Failed(calls[k])) =>
            /\ \A k \in ErrorPayloads(stderr) : stderr[k].error_code = "FFMPEG_NOT_FOUND"
            /\ \A k \in ErrorPayloads(stdout) : stdout[k].error_code = "FFMPEG_NOT_FOUND"
            /\ pc = "exited" => ErrorPayloads(stderr) # {} /\ ErrorPayloads(stdout) # {}

\* Every operation is called at most twice, and a second call of an
\* operation is its CPU retry after a call on the accelerator; diarize is
\* the exception, WhisperX calls it twice in a row (lines 519 and 521).
RetriedAtMostOnce ==
    /\ \A name \in {"AutoModel", "generate", "load_model", "transcribe",
                    "load_align_model", "align"} :
            /\ Cardinality(AttemptsOf({name})) <= 2
            /\ \A j, k \in AttemptsOf({name}) :
                    j < k => calls[j].device = "cuda" /\ calls[k].device = "cpu"
    /\ Cardinality(AttemptsOf({"diarize"})) <= 2
    /\ \A name \in {"get_ffmpeg_path", "extract_audio", "load_audio", "DiarizationPipeline",
                    "assign_word_speakers", "write_result", "open", "os.remove"} :
            Cardinality(AttemptsOf({name})) <= 1
    /\ Cardinality(AttemptsOf(TranscriptionCalls)) <= 2
    /\ Cardinality(AttemptsOf({"align"})) <= 2

Terminated == pc = "exited" /\ exit_code \in {0, 1}

(***************************************************************************)
(* C29.  When every external call returns or raises, every run of main()   *)
(* eventually exits, with status 0 or 1; and no operation is attempted     *)
(* more than twice (one attempt on the selected device, one CPU retry).    *)
(***************************************************************************)
C29_TerminatesWithBoundedRetries == []RetriedAtMostOnce /\ <>Terminated

\* A run that has exited after retrying both the transcription and the
\* alignment on the CPU.
C29_Witness ==
    /\ Terminated
    /\ Cardinality(AttemptsOf(TranscriptionCalls)) = 2
    /\ Cardinality(AttemptsOf({"load_align_model"})) = 2

\* The raw segments of the k-th run of the grouping B.
RunOf(B, k) == RunStart(B, k)..RunEnd(B, k)

(***************************************************************************)
(* C30 as stated.  With diarization and merging enabled, no emitted        *)
(* segment combines raw segments of two different known speakers, whether  *)
(* or not the run starts with or contains segments of unknown speaker.     *)
(***************************************************************************)
C30_Original_NoGroupMixesKnownSpeakers ==
    (Returned /\ diarization_enabled /\ enable_segment_merging) =>
        \A B \in Groupings :
            TextsMatch(B) =>
                \A k \in 1..Len(processed_segments_ms_spk) :
                    \A a, b \in RunOf(B, k) :
                        (raw_segments_ms_spk[a].spk # NULL /\ raw_segments_ms_spk[b].spk # NULL)
                            => raw_segments_ms_spk[a].spk = raw_segments_ms_spk[b].spk

(***************************************************************************)
(* C30.  With diarization and merging enabled, an emitted segment whose    *)
(* first raw segment has a known speaker combines only raw segments of     *)
(* that speaker or of unknown speaker.  (A run that starts with a segment  *)
(* of unknown speaker keeps the speaker null and is compatible with every  *)
(* later speaker.)                                                         *)
(***************************************************************************)
C30_KnownFirstSpeakerIsNotMixed ==
    (Returned /\ diarization_enabled /\ enable_segment_merging) =>
        \A B \in Groupings :
            TextsMatch(B) =>
                \A k \in 1..Len(processed_segments_ms_spk) :
                    raw_segments_ms_spk[RunStart(B, k)].spk # NULL =>
                        \A a \in RunOf(B, k) :
                            raw_segments_ms_spk[a].spk \in
                                {NULL, raw_segments_ms_spk[RunStart(B, k)].spk}

\* Three raw segments of speakers A, unknown, A emitted as one segment.
C30_Witness ==
    /\ Returned /\ diarization_enabled /\ enable_segment_merging
    /\ Len(raw_segments_ms_spk) = 3
    /\ Len(processed_segments_ms_spk) = 1
    /\ TextsMatch({})
    /\ raw_segments_ms_spk[1].spk = "A"
    /\ raw_segments_ms_spk[2].spk = NULL
    /\ raw_segments_ms_spk[3].spk = "A"

\* The scan of lines 130-168 applied to the segments the call emitted, with
\* the call's own arguments.
Remerged ==
    MergedSegments(diarization_enabled, max_merge_gap_ms, max_merged_segment_duration_ms,
                   processed_segments_ms_spk)

(***************************************************************************)
(* C31.  Idempotence of the merger: when every raw segment has end >=      *)
(* start and merging is enabled, scanning the emitted segments again with  *)
(* the same diarization flag, gap limit and duration limit gives the same  *)
(* segments, and no two adjacent emitted segments satisfy the merge        *)
(* condition; the scan itself is the one the call performed on the raw     *)
(* segments.                                                               *)
(***************************************************************************)
C31_MergerIsIdempotent ==
    (Returned /\ enable_segment_merging /\ RawWellFormed) =>
        /\ processed_segments_ms_spk =
                MergedSegments(diarization_enabled, max_merge_gap_ms,
                               max_merged_segment_duration_ms, raw_segments_ms_spk)
        /\ Remerged = processed_segments_ms_spk
        /\ \A k \in 1..(Len(processed_segments_ms_spk) - 1) :
                ~ShouldMerge(diarization_enabled, max_merge_gap_ms,
                             max_merged_segment_duration_ms,
                             processed_segments_ms_spk[k], processed_segments_ms_spk[k + 1])

\* Three raw segments emitted as two: speaker A alone, then speaker B merged
\* with a segment of unknown speaker, the two touching in time.
C31_Witness ==
    /\ Returned /\ enable_segment_merging /\ RawWellFormed /\ diarization_enabled
    /\ Len(raw_segments_ms_spk) = 3
    /\ Len(processed_segments_ms_spk) = 2
    /\ TextsMatch({2})
    /\ raw_segments_ms_spk[1].spk = "A"
    /\ raw_segments_ms_spk[2].spk = "B"
    /\ raw_segments_ms_spk[3].spk = NULL
    /\ Gap(processed_segments_ms_spk[1], processed_segments_ms_spk[2]) = 0
    /\ Remerged = processed_segments_ms_spk

\* Diarization was requested and a credential was supplied.
DiarizationRequested ==
    args.enable_diarization /\ args.hf_token # NULL /\ args.hf_token # ""

\* The positions of the successful calls of align in the log.
AlignmentResults == {k \in 1..Len(calls) : calls[k].call = "align" /\ ~Failed(calls[k])}

(***************************************************************************)
(* C32.  On both engine paths the diarization stage is entered only after  *)
(* a call of align returned a result, and every diarization call follows   *)
(* that call.  When the alignment soft-failed, no diarization call is made *)
(* and the diarization stage is not entered, even when diarization was     *)
(* requested with a credential; the flag alignment_failed is set and the   *)
(* writer receives the segments as they were before alignment, none of     *)
(* them with a speaker label.                                              *)
(***************************************************************************)
C32_DiarizationOnlyAfterAlignment ==
    /\ DiarizationEntered => AlignmentResults # {}
    /\ \A k \in 1..Len(calls) :
            calls[k].call \in DiarizationCalls =>
                \E j \in AlignmentResults : j < k
    /\ AlignmentStageSoftFailed =>
            /\ ~DiarizationEntered
            /\ AlignmentResults = {}
            /\ frame.alignment_failed
            /\ \A k \in 1..Len(calls) :
                    calls[k].call = "write_result" =>
                        /\ calls[k].arg.segments = PreAlignmentSegments
                        /\ ~HasSpeakerLabels(calls[k].arg)

\* A run with diarization requested and a credential supplied whose
\* alignment soft-failed and whose writer was called with segments.
C32_Witness ==
    /\ SuccessfulRun
    /\ DiarizationRequested
    /\ AlignmentStageSoftFailed
    /\ \E k \in 1..Len(calls) :
            /\ calls[k].call = "write_result"
            /\ ~Failed(calls[k])
            /\ calls[k].arg.segments # <<>>

====
